---- MODULE Spec2Model ----
(***************************************************************************)
(* A model of the client script of the Bwise portfolio site                *)
(* (src/assets/script.js, with the older variants src/script.js and        *)
(* src/unnamed/part_001 where they differ).                                *)
(*                                                                         *)
(* JavaScript runs every handler to completion, so each handler is one     *)
(* action; an async function is cut at its awaits.  Timers of equal delay  *)
(* fire in the order they were set, so each class of timer is a FIFO       *)
(* queue; timers of different classes interleave freely.                   *)
(***************************************************************************)
EXTENDS Naturals, Sequences, FiniteSets, TLC

\* ------------------------------------------------------------------------
\* Bounds of the model
\* ------------------------------------------------------------------------

\* How many loadJsonData calls one run makes.
MaxCalls == 3

\* ------------------------------------------------------------------------
\* Values
\* ------------------------------------------------------------------------

\* The absent value of JavaScript (a missing property, an unset field).
Undefined == "undefined"

\* Fixture URLs a free caller may pass; "" is the empty source.
DashUrl     == "../assets/data/dashboard-metrics.json"
ShowcaseUrl == "../assets/data/backend-showcase.json"
LabUrl      == "../assets/data/platform-lab.json"
LibraryUrl  == "../assets/data/learning-library.json"

\* ------------------------------------------------------------------------
\* Fixture bodies.  A static file serves one body for the whole run; a body
\* is named by a string and its parsed structure is read through the
\* accessors below (DashDataSets, Kpis, ...).
\* ------------------------------------------------------------------------

\* Bodies that are JSON but parse to a falsy value.
FalsyBodies == {"null", "0"}

\* A body response.json() rejects.
MalformedBody == "<html>"

\* script.js:73  await response.json(): whether the body parses.
Parses(body) == body # MalformedBody

\* script.js:66  if (jsonCache[source]): JavaScript truthiness of a cache slot.
\* A slot holds NoEntry or [body, obj]; an object or array is truthy, the
\* parsed values null and 0 are not.
NoEntry == [body |-> Undefined, obj |-> 0]
NeverCached(slot) == FALSE
Truthy(slot) == slot # NoEntry /\ slot.body \notin FalsyBodies

VARIABLES
  page,        \* the markup and the host the script runs on (fixed for the run)
  served,      \* url -> the body the static file holds (fixed for the run)
  jsonCache,   \* url -> [body, obj] cached, or NoEntry
  calls,       \* the loadJsonData calls made so far, in call order
  fetchCount,  \* url -> number of network fetches issued (the network's log)
  pagePc,      \* where init() stands
  phase,       \* widget -> how far its set-up got
  console,     \* the messages logged with console.error
  unhandled,   \* the exceptions that escaped (a rejected promise nobody handles)
  dash,        \* the DashboardSection and the DOM of its section
  fw,          \* widget -> the BackendShowcase / PlatformLab and its DOM
  lib,         \* library section -> the LearningLibrary and its DOM
  live,        \* the aria-live region and its pending clear timers
  nav,         \* the MobileNavigation, its DOM and the keyboard focus
  reveal,      \* the animatable elements' inline style and the observer
  event        \* the handler that ran last

hostVars   == <<page, served>>
loaderVars == <<jsonCache, calls, fetchCount>>
initVars   == <<pagePc, phase, console, unhandled>>
widgetVars == <<dash, fw, lib, live, nav, reveal>>
vars == <<page, served, jsonCache, calls, fetchCount, pagePc, phase, console, unhandled,
          dash, fw, lib, live, nav, reveal, event>>

\* ------------------------------------------------------------------------
\* Fixture loader (loadJsonData)
\* ------------------------------------------------------------------------

Urls == {DashUrl, ShowcaseUrl, LabUrl, LibraryUrl}

\* Calls of `calls` still between their fetch and their return.
InFlight(u) == {i \in 1..Len(calls) : calls[i].url = u /\ calls[i].pc \in {"fetching", "parsing"}}
\* Calls that fetched and returned parsed data.
Loaded(u) == {i \in 1..Len(calls) : calls[i].url = u /\ calls[i].pc = "done" /\ calls[i].fetched}
\* Calls that threw.
Failed(u) == {i \in 1..Len(calls) : calls[i].url = u /\ calls[i].pc = "failed"}

\* script.js:62-69  the synchronous part of loadJsonData(source), up to its
\* first await: the record of the new call.  overlap, afterLoad and afterFail
\* note what the other calls for the same source had done when this one
\* started; status is the response's, order the rank among completed loads.
StartedCall(owner, source) ==
  LET base == [owner |-> owner, url |-> source, result |-> NoEntry, status |-> "", order |-> 0,
               overlap   |-> source # "" /\ InFlight(source) # {},
               afterLoad |-> source # "" /\ Loaded(source) # {},
               afterFail |-> source # "" /\ Failed(source) # {}]
  IN IF source = ""
       THEN base @@ [pc |-> "failed", fetched |-> FALSE, error |-> "Missing data source"]
     ELSE IF Truthy(jsonCache[source])
       THEN [base EXCEPT !.result = jsonCache[source]]
              @@ [pc |-> "done", fetched |-> FALSE, error |-> ""]
     ELSE base @@ [pc |-> "fetching", fetched |-> TRUE, error |-> ""]

\* script.js:62-69  loadJsonData(source) called by `owner`: runs to the first
\* await; a cache miss issues the network fetch.
LoadJsonData(owner, source) ==
  LET c == StartedCall(owner, source)
  IN /\ calls' = Append(calls, c)
     /\ fetchCount' = IF c.fetched THEN [fetchCount EXCEPT ![source] = @ + 1] ELSE fetchCount
     /\ UNCHANGED jsonCache

FetchSettlesNoOkCheck(i, outcome) ==
  /\ calls[i].pc = "fetching"
  /\ calls' = [calls EXCEPT ![i] =
       IF outcome \in {"ok", "status"} THEN [@ EXCEPT !.pc = "parsing", !.status = outcome]
       ELSE [@ EXCEPT !.pc = "failed", !.status = outcome, !.error = "NetworkError"]]
  /\ UNCHANGED <<jsonCache, fetchCount>>

\* script.js:69-72  the fetch of call i settles: a successful status goes on
\* to response.json(); a network error or a status that is not ok throws.
FetchSettles(i, outcome) ==
  /\ calls[i].pc = "fetching"
  /\ calls' = [calls EXCEPT ![i] =
       IF outcome = "ok" THEN [@ EXCEPT !.pc = "parsing", !.status = outcome]
       ELSE [@ EXCEPT !.pc = "failed", !.status = outcome,
                      !.error = IF outcome = "status" THEN "Data fetch failed" ELSE "NetworkError"]]
  /\ UNCHANGED <<jsonCache, fetchCount>>

AllLoaded == {i \in 1..Len(calls) : calls[i].pc = "done" /\ calls[i].fetched}

JsonSettlesKeepFirst(i) ==
  /\ calls[i].pc = "parsing"
  /\ LET u    == calls[i].url
         data == [body |-> served[u], obj |-> i]
     IN IF Parses(served[u])
          THEN /\ calls' = [calls EXCEPT ![i] = [@ EXCEPT !.pc = "done", !.result = data,
                                                          !.order = Cardinality(AllLoaded) + 1]]
               /\ jsonCache' = IF jsonCache[u] = NoEntry THEN [jsonCache EXCEPT ![u] = data]
                               ELSE jsonCache
          ELSE /\ calls' = [calls EXCEPT ![i] = [@ EXCEPT !.pc = "failed", !.error = "SyntaxError"]]
               /\ UNCHANGED jsonCache
  /\ UNCHANGED fetchCount

\* script.js:73-75  response.json() of call i settles: the parsed data (a new
\* object for every response) is cached under the url and returned; a body
\* that does not parse throws.
JsonSettles(i) ==
  /\ calls[i].pc = "parsing"
  /\ LET u    == calls[i].url
         data == [body |-> served[u], obj |-> i]
     IN IF Parses(served[u])
          THEN /\ calls' = [calls EXCEPT ![i] = [@ EXCEPT !.pc = "done", !.result = data,
                                                          !.order = Cardinality(AllLoaded) + 1]]
               /\ jsonCache' = [jsonCache EXCEPT ![u] = data]
          ELSE /\ calls' = [calls EXCEPT ![i] = [@ EXCEPT !.pc = "failed", !.error = "SyntaxError"]]
               /\ UNCHANGED jsonCache
  /\ UNCHANGED fetchCount

FetchOutcomes == {"ok", "status", "network"}

\* ------------------------------------------------------------------------
\* The order of execution: init() first, continuations before tasks
\* ------------------------------------------------------------------------

\* script.js:971-1006  the set-up steps of init(), in order; the library
\* step runs once per [data-library-track] section.
Steps == <<"nav", "dashboard", "scroll", "smooth", "showcase", "lab", "lib1", "lib2", "perf">>
Widgets == {Steps[j] : j \in 1..Len(Steps)}
LibName(sec) == IF sec = 1 THEN "lib1" ELSE "lib2"
Finished == {"done", "caught"}

StepIndex(w) == CHOOSE j \in 1..Len(Steps) : Steps[j] = w
After(w) == IF StepIndex(w) = Len(Steps) THEN "done" ELSE Steps[StepIndex(w) + 1]

\* The call widget w awaits, when it has settled.
SettledCallOf(w) ==
  {i \in 1..Len(calls) : calls[i].owner = w /\ calls[i].pc \in {"done", "failed"}}
\* A continuation is due: it runs before any other task.
ContinuationDue == \E w \in Widgets : phase[w] = "loading" /\ SettledCallOf(w) # {}
\* A task (a timer, a click, a network answer) can start.
Idle == pagePc \in Finished /\ ~ContinuationDue

\* ------------------------------------------------------------------------
\* Accessibility announcer
\* ------------------------------------------------------------------------

\* Pending clear timers one run may hold.
MaxClears == 2

\* script.js:23-27  announceToScreenReader(message) on the live region l:
\* the region is created on first use, the text is written and a clear is set
\* for 1000 ms later.
Announce(l, message) == [region |-> TRUE, text |-> message, clears |-> l.clears + 1]

\* script.js:26  a clear timer fires (the 1000 ms timers fire in the order set).
ClearFires ==
  /\ Idle
  /\ live.clears > 0
  /\ live' = [live EXCEPT !.text = "", !.clears = @ - 1]
  /\ event' = [op |-> "clearFires", arg |-> ""]
  /\ UNCHANGED <<hostVars, loaderVars, initVars, dash, fw, lib, nav, reveal>>

NoLiveRegion == [region |-> FALSE, text |-> "", clears |-> 0]

\* ------------------------------------------------------------------------
\* Mobile navigation
\* ------------------------------------------------------------------------

\* Pending 100 ms focus timers one run may hold.
MaxFocusTimers == 2

\* The elements focus can be on: the toggle button, the menu's focusable
\* elements (links), the target of an in-page link, a control after the menu,
\* or nothing ("body").
ItemNames == <<"item1", "item2", "item3">>
FocusableElements(pg) == SubSeq(ItemNames, 1, pg.navItems)
IsItem(pg, f) == \E j \in 1..pg.navItems : ItemNames[j] = f

\* script.js:83-94 and the markup: the navigation before init().
NavMarkup(pg) ==
  [listening |-> FALSE, open |-> FALSE, ariaExpanded |-> pg.navAria, overflow |-> "",
   focus |-> "body", focusQ |-> 0, lastUser |-> "none"]

OpenMenuNoScrollLock(n, l) ==
  [nav |-> [n EXCEPT !.focusQ = @ + 1], live |-> Announce(l, "Navigation menu opened")]

\* script.js:154-164  openMenu(): scroll lock, announcement and the 100 ms
\* timer that focuses the first menu item.
OpenMenu(n, l) ==
  [nav  |-> [n EXCEPT !.overflow = "hidden", !.focusQ = @ + 1],
   live |-> Announce(l, "Navigation menu opened")]

CloseMenuKeepsClass(n, l) ==
  [nav  |-> [n EXCEPT !.ariaExpanded = "false", !.overflow = ""],
   live |-> Announce(l, "Navigation menu closed")]

\* script.js:166-171  closeMenu().
CloseMenu(n, l) ==
  [nav  |-> [n EXCEPT !.open = FALSE, !.ariaExpanded = "false", !.overflow = ""],
   live |-> Announce(l, "Navigation menu closed")]

\* script.js:143-152  toggleMenu(): String(isOpen) is "true" or "false".
ToggleMenu(n, l) ==
  LET isOpen == ~n.open
      n1 == [n EXCEPT !.open = isOpen, !.ariaExpanded = IF isOpen THEN "true" ELSE "false"]
  IN IF isOpen THEN OpenMenu(n1, l) ELSE CloseMenu(n1, l)

TrapFocusNoWrap(pg, n, shiftKey) == [prevented |-> FALSE, focus |-> n.focus]

\* script.js:127-141  trapFocus(e) for a Tab key press: whether the default
\* was prevented, and the focus after the handler.
TrapFocus(pg, n, shiftKey) ==
  IF ~n.open \/ pg.navItems = 0 THEN [prevented |-> FALSE, focus |-> n.focus]
  ELSE LET first == FocusableElements(pg)[1]
           last  == FocusableElements(pg)[pg.navItems]
       IN IF shiftKey /\ n.focus = first THEN [prevented |-> TRUE, focus |-> last]
          ELSE IF ~shiftKey /\ n.focus = last THEN [prevented |-> TRUE, focus |-> first]
          ELSE [prevented |-> FALSE, focus |-> n.focus]

\* The browser's sequential focus navigation: the tabbable elements in
\* document order (the menu's items only while they can take focus), and the
\* element Tab or Shift+Tab moves to from f; past either end focus leaves the
\* document.
ItemsFocusable(pg, n) == n.open \/ pg.closedMenuFocusable
TabOrder(pg, n) ==
  <<"toggle">> \o (IF ItemsFocusable(pg, n) THEN FocusableElements(pg) ELSE <<>>) \o <<"after">>
DefaultTab(pg, n, shiftKey) ==
  LET order == TabOrder(pg, n)
      at    == {j \in 1..Len(order) : order[j] = n.focus}
  IN IF at = {}
       THEN IF n.focus = "target" THEN "after"
            ELSE IF shiftKey THEN order[Len(order)] ELSE order[1]
     ELSE LET j == CHOOSE k \in at : TRUE
          IN IF shiftKey THEN (IF j = 1 THEN "body" ELSE order[j - 1])
             ELSE (IF j = Len(order) THEN "body" ELSE order[j + 1])

\* script.js:97, 143-152  the toggle button is activated.
NavToggleClick ==
  /\ Idle
  /\ nav.listening
  /\ live.clears < MaxClears
  /\ nav.focusQ < MaxFocusTimers
  /\ LET r == ToggleMenu(nav, live)
     IN /\ nav' = [r.nav EXCEPT !.focus = "toggle", !.lastUser = "toggle"]
        /\ live' = r.live
  /\ event' = [op |-> "navToggle", arg |-> ""]
  /\ UNCHANGED <<hostVars, loaderVars, initVars, dash, fw, lib, reveal>>

\* script.js:100-104, 475-497  a click on link i of the menu (an in-page
\* link): the menu closes if it is open, and the smooth-scroll handler moves
\* focus to the link's target.
NavLinkClick(i) ==
  /\ Idle
  /\ nav.listening
  /\ i \in 1..page.navItems
  /\ live.clears < MaxClears
  /\ LET r == IF nav.open THEN CloseMenu(nav, live) ELSE [nav |-> nav, live |-> live]
     IN /\ nav' = [r.nav EXCEPT !.focus = "target", !.lastUser = "link"]
        /\ live' = r.live
  /\ event' = [op |-> "navLink", arg |-> ItemNames[i]]
  /\ UNCHANGED <<hostVars, loaderVars, initVars, dash, fw, lib, reveal>>

\* script.js:108-113  the Escape key is pressed anywhere in the document.
NavEscape ==
  /\ Idle
  /\ nav.listening
  /\ live.clears < MaxClears
  /\ IF nav.open
       THEN LET r == CloseMenu(nav, live)
            IN /\ nav' = [r.nav EXCEPT !.focus = "toggle", !.lastUser = "escapeClosed"]
               /\ live' = r.live
       ELSE /\ nav' = [nav EXCEPT !.lastUser = "escape"]
            /\ live' = live
  /\ event' = [op |-> "navEscape", arg |-> ""]
  /\ UNCHANGED <<hostVars, loaderVars, initVars, dash, fw, lib, reveal>>

\* script.js:124, 127-141  the Tab key is pressed: trapFocus runs when the
\* focus is inside the menu; unless it prevented the default, the browser
\* moves focus to the next (previous) tabbable element.
NavTab(shiftKey) ==
  /\ Idle
  /\ nav.listening
  /\ LET t == IF IsItem(page, nav.focus) THEN TrapFocus(page, nav, shiftKey)
              ELSE [prevented |-> FALSE, focus |-> nav.focus]
     IN nav' = [nav EXCEPT !.focus = IF t.prevented THEN t.focus
                                     ELSE DefaultTab(page, nav, shiftKey),
                           !.lastUser = "tab"]
  /\ event' = [op |-> "navTab", arg |-> IF shiftKey THEN "shift" ELSE "", from |-> nav.focus]
  /\ UNCHANGED <<hostVars, loaderVars, initVars, dash, fw, lib, live, reveal>>

\* script.js:159-163  the oldest focus timer fires: the first menu item is
\* focused (an element that cannot take focus ignores focus()).
NavFocusTimerFires ==
  /\ Idle
  /\ nav.focusQ > 0
  /\ nav' = [nav EXCEPT !.focusQ = @ - 1,
                        !.focus = IF page.navItems > 0 /\ ItemsFocusable(page, nav)
                                    THEN FocusableElements(page)[1] ELSE @]
  /\ event' = [op |-> "navFocusTimer", arg |-> ""]
  /\ UNCHANGED <<hostVars, loaderVars, initVars, dash, fw, lib, live, reveal>>

\* ------------------------------------------------------------------------
\* Dashboard: datasets
\* ------------------------------------------------------------------------

\* part_001:316-334  the 'reporting' dataset (two of its four metrics).
Reporting ==
  [monthly   |-> [totalReports |-> [value |-> "2,847",  change |-> "Up 12 percent from last period"],
                  timeSaved    |-> [value |-> "1,240",  change |-> "About 60 percent efficiency gain"]],
   quarterly |-> [totalReports |-> [value |-> "8,310",  change |-> "Up 18 percent vs prior quarter"],
                  timeSaved    |-> [value |-> "3,720",  change |-> "Manual work down about 64 percent"]],
   yearly    |-> [totalReports |-> [value |-> "32,400", change |-> "Up 26 percent year over year"],
                  timeSaved    |-> [value |-> "14,800", change |-> "Full year impact across all units"]]]

\* A fixture that records two views only, the second without timeSaved.
ReportingPartial ==
  [monthly |-> Reporting.monthly,
   yearly  |-> [totalReports |-> Reporting.yearly.totalReports]]

\* An object with no property: {}.
EmptyObject == [k \in {} |-> Undefined]

NoDataSet == EmptyObject

\* script.js:352-353  this.dataSets[key] for the section key 'reporting':
\* the dataset a fixture body records for it, NoDataSet when it has none.
DashDataSet(body) ==
  CASE body = "dash-full"    -> Reporting
    [] body = "dash-partial" -> ReportingPartial
    [] OTHER                 -> NoDataSet

\* script.js:257  view.replace(/-/g, ' ').replace(/\b\w/g, upper): the
\* human-readable name of a view key.
ViewName(view) ==
  CASE view = "monthly"   -> "Monthly"
    [] view = "quarterly" -> "Quarterly"
    [] view = "yearly"    -> "Yearly"
    [] OTHER              -> view

\* ------------------------------------------------------------------------
\* Dashboard: DashboardSection
\* ------------------------------------------------------------------------

\* Pending value swaps one run may hold.
MaxSwaps == 4

\* The text the markup holds before any script wrote to a node.
MarkupText == "(markup)"

\* script.js:183-184 and the markup: the section's DOM before construction.
DashMarkup(pg) ==
  [currentView |-> Undefined,
   dataSet     |-> NoDataSet,
   listening   |-> FALSE,
   btnActive   |-> [i \in 1..Len(pg.dashButtons) |-> i = pg.dashMarked],
   btnPressed  |-> [i \in 1..Len(pg.dashButtons) |-> IF i = pg.dashMarked THEN "true" ELSE "false"],
   valueText   |-> [n \in pg.valueNodes |-> MarkupText],
   opacity     |-> [n \in pg.valueNodes |-> ""],
   captionText |-> [n \in pg.captionNodes |-> MarkupText],
   swapQ       |-> <<>>,
   animationTimeout |-> "none", animationPending |-> 0,
   cardPulse   |-> [c \in 1..pg.metricCards |-> FALSE],
   pulseQ      |-> <<>>,
   steps       |-> <<>>]

\* script.js:194-197  getInitialView(): the view of the first button the
\* markup marks active, else of the first button.
GetInitialView(pg) ==
  LET marked == {i \in 1..Len(pg.dashButtons) : i = pg.dashMarked}
      activeButton == IF marked # {} THEN pg.dashMarked ELSE 1
  IN pg.dashButtons[activeButton]

\* script.js:266-293  the metric keys updateMetrics(data) writes, in order:
\* with data-metric-key nodes, the nodes whose key data records (272); without,
\* the keys of data that have an element of that id (286).  Either way, the
\* metrics that data records and the section shows.
Shown(pg) == pg.valueNodes \cup pg.captionNodes
UpdatedMetrics(pg, data) ==
  IF pg.metricKeyNodes
    THEN SelectSeq(pg.metricOrder, LAMBDA k : k \in Shown(pg) /\ k \in DOMAIN data)
    ELSE SelectSeq(pg.metricOrder, LAMBDA k : k \in DOMAIN data /\ k \in Shown(pg))

\* script.js:296-305  animateValueChange for every metric of ks that has a
\* value element: dim it and queue the swap for 100 ms later.
RECURSIVE QueueSwaps(_, _, _, _)
QueueSwaps(pg, d, data, ks) ==
  IF ks = <<>> THEN d
  ELSE LET k == Head(ks)
           d1 == IF k \in pg.valueNodes
                   THEN [d EXCEPT !.opacity[k] = "0.5",
                                  !.swapQ = Append(@, [node |-> k, value |-> data[k].value])]
                   ELSE d
       IN QueueSwaps(pg, d1, data, Tail(ks))

UpdateMetricsKeepsCaptions(pg, d, data) == QueueSwaps(pg, d, data, UpdatedMetrics(pg, data))

\* updateMetrics(data) writing the values at once, as it does the captions.
UpdateMetricsWritesValues(pg, d, data) ==
  LET ks == UpdatedMetrics(pg, data)
      upd(n) == \E j \in 1..Len(ks) : ks[j] = n
  IN [d EXCEPT !.captionText = [n \in pg.captionNodes |->
                                  IF upd(n) THEN data[n].change ELSE d.captionText[n]],
               !.valueText = [n \in pg.valueNodes |->
                                IF upd(n) THEN data[n].value ELSE d.valueText[n]]]

\* updateMetrics(data) whose value swaps fire ahead of the pending ones.
UpdateMetricsSwapsAhead(pg, d, data) ==
  LET ks == UpdatedMetrics(pg, data)
      d1 == [d EXCEPT !.captionText =
               [n \in pg.captionNodes |->
                  IF \E j \in 1..Len(ks) : ks[j] = n THEN data[n].change ELSE d.captionText[n]]]
      d2 == QueueSwaps(pg, [d1 EXCEPT !.swapQ = <<>>], data, ks)
  IN [d2 EXCEPT !.swapQ = @ \o d.swapQ]

\* script.js:265-294  updateMetrics(data): captions are written at once, the
\* values through animateValueChange.
UpdateMetrics(pg, d, data) ==
  LET ks == UpdatedMetrics(pg, data)
      d1 == [d EXCEPT !.captionText =
               [n \in pg.captionNodes |->
                  IF \E j \in 1..Len(ks) : ks[j] = n THEN data[n].change ELSE d.captionText[n]]]
  IN QueueSwaps(pg, d1, data, ks)

\* updateButtons(activeView) toggling the active button's class and state
\* instead of setting them.
UpdateButtonsToggles(pg, d, activeView) ==
  [d EXCEPT !.btnActive  = [i \in 1..Len(pg.dashButtons) |->
                              IF pg.dashButtons[i] = activeView THEN ~d.btnActive[i] ELSE FALSE],
            !.btnPressed = [i \in 1..Len(pg.dashButtons) |->
                              IF pg.dashButtons[i] = activeView /\ ~d.btnActive[i]
                                THEN "true" ELSE "false"]]

\* script.js:307-313  updateButtons(activeView).
UpdateButtons(pg, d, activeView) ==
  [d EXCEPT !.btnActive  = [i \in 1..Len(pg.dashButtons) |-> pg.dashButtons[i] = activeView],
            !.btnPressed = [i \in 1..Len(pg.dashButtons) |->
                              IF pg.dashButtons[i] = activeView THEN "true" ELSE "false"]]

\* animateCards() without clearTimeout.
AnimateCardsNoCancel(d) ==
  [d EXCEPT !.animationTimeout = "pending", !.animationPending = @ + 1]

\* script.js:315-327  animateCards(): the pending start timeout is cancelled
\* and a new one set.  animationTimeout is the state of the timeout the
\* handle names, animationPending the number of start timeouts pending.
AnimateCards(d) ==
  [d EXCEPT !.animationTimeout = "pending",
            !.animationPending = (IF d.animationTimeout = "pending" THEN @ - 1 ELSE @) + 1]

\* The statements of setView's try block, in the order they ran in the last
\* call for a valid view (d.steps).
Step(d, name) == [d EXCEPT !.steps = Append(@, name)]

\* script.js:244-263  setView(view) on the section d and the live region l:
\* [dash, live, console] after the call.
SetViewAssignsFirst(pg, d, l, con, view) ==
  IF view \notin DOMAIN d.dataSet
    THEN [dash |-> [d EXCEPT !.currentView = view], live |-> l,
          console |-> con \cup {"Invalid view"}]
  ELSE LET d1 == [d EXCEPT !.currentView = view, !.steps = <<>>]
           d2 == Step(UpdateMetrics(pg, d1, d.dataSet[view]), "metrics")
           d3 == Step(UpdateButtons(pg, d2, view), "buttons")
           d4 == Step(AnimateCards(d3), "animation")
       IN [dash |-> Step(d4, "announcement"), live |-> Announce(l, ViewName(view)),
           console |-> con]

SetView(pg, d, l, con, view) ==
  IF view \notin DOMAIN d.dataSet
    THEN [dash |-> d, live |-> l, console |-> con \cup {"Invalid view"}]
  ELSE LET d1 == [d EXCEPT !.currentView = view, !.steps = <<>>]
           d2 == Step(UpdateMetrics(pg, d1, d.dataSet[view]), "metrics")
           d3 == Step(UpdateButtons(pg, d2, view), "buttons")
           d4 == Step(AnimateCards(d3), "animation")
       IN [dash |-> Step(d4, "announcement"), live |-> Announce(l, ViewName(view)),
           console |-> con]

\* script.js:179-192, 199-212  new DashboardSection(root, dataSet): [dash,
\* live, console, outcome].  No button: the constructor returns at once.  The
\* list safeQueryAll returns is a NodeList, which has no find method, so
\* getInitialView throws a TypeError before init(); where the host's list has
\* find, init() registers the listeners and selects the initial view.
NewDashboardSection(pg, d, l, con, dataSet) ==
  LET d0 == [d EXCEPT !.dataSet = dataSet]
  IN IF Len(pg.dashButtons) = 0
       THEN [dash |-> d0, live |-> l, console |-> con, outcome |-> "nobuttons"]
     ELSE IF ~pg.listHasFind
       THEN [dash |-> d0, live |-> l, console |-> con, outcome |-> "threw"]
     ELSE LET d1 == [d0 EXCEPT !.currentView = GetInitialView(pg), !.listening = TRUE]
          IN SetView(pg, d1, l, con, d1.currentView) @@ [outcome |-> "ready"]

\* script.js:200-205  a click on view button i.
ClickViewButton(i) ==
  /\ Idle
  /\ dash.listening
  /\ i \in 1..Len(page.dashButtons)
  /\ Len(dash.swapQ) + Cardinality(page.valueNodes) <= MaxSwaps
  /\ live.clears < MaxClears
  /\ LET r == SetView(page, dash, live, console, page.dashButtons[i])
     IN /\ dash' = r.dash
        /\ live' = r.live
        /\ console' = r.console
  /\ event' = [op |-> "setView", arg |-> page.dashButtons[i],
               restarted |-> dash.animationTimeout = "pending"]
  /\ UNCHANGED <<hostVars, loaderVars, pagePc, phase, unhandled, fw, lib, nav, reveal>>

\* script.js:301-304  the oldest pending value swap fires.
SwapFires ==
  /\ Idle
  /\ dash.swapQ # <<>>
  /\ LET t == Head(dash.swapQ)
     IN dash' = [dash EXCEPT !.valueText[t.node] = t.value,
                             !.opacity[t.node] = "1",
                             !.swapQ = Tail(@)]
  /\ event' = [op |-> "swapFires", arg |-> Head(dash.swapQ).node]
  /\ UNCHANGED <<hostVars, loaderVars, initVars, fw, lib, live, nav, reveal>>

\* script.js:318-326  the card-animation start timeout fires: every card
\* loses 'pulse' and gets its own timer, index * 50 ms later.  The previous
\* firing's card timers (at most 50 ms each) have fired by then: this timeout
\* was set after that firing and runs 100 ms after it was set.
AnimationFires ==
  /\ Idle
  /\ dash.animationPending > 0
  /\ dash.pulseQ = <<>>
  /\ dash' = [dash EXCEPT !.animationTimeout = IF dash.animationPending = 1 THEN "fired" ELSE @,
                          !.animationPending = @ - 1,
                          !.cardPulse = [c \in 1..page.metricCards |-> FALSE],
                          !.pulseQ = [c \in 1..page.metricCards |-> c]]
  /\ event' = [op |-> "animationFires", arg |-> ""]
  /\ UNCHANGED <<hostVars, loaderVars, initVars, fw, lib, live, nav, reveal>>

\* script.js:322-324  the next card's timer fires (they fire in index order).
PulseFires ==
  /\ Idle
  /\ dash.pulseQ # <<>>
  /\ dash' = [dash EXCEPT !.cardPulse[Head(dash.pulseQ)] = TRUE, !.pulseQ = Tail(@)]
  /\ event' = [op |-> "pulseFires", arg |-> ""]
  /\ UNCHANGED <<hostVars, loaderVars, initVars, fw, lib, live, nav, reveal>>

\* ------------------------------------------------------------------------
\* Card-filter widgets: BackendShowcase ("showcase") and PlatformLab ("lab")
\* ------------------------------------------------------------------------

\* Pending 600 ms KPI pulse timers one run may hold per widget.
MaxKpiTimers == 3

FilterWidgets == {"showcase", "lab"}

\* part_001:563-609  the showcase fixture: KPI values per filter (backend
\* records no latency), summaries (none for security), log and audit lines.
ShowcaseKpis ==
  [all      |-> [services |-> [value |-> "12", change |-> "Versioned APIs, jobs, and reporting endpoints"],
                 latency  |-> [value |-> "180ms", change |-> "Optimized queries + caching strategy"]],
   backend  |-> [services |-> [value |-> "6", change |-> "CRUD APIs, auth middleware, and background jobs"]],
   security |-> [services |-> [value |-> "7", change |-> "Authorization and security services"],
                 latency  |-> [value |-> "150ms", change |-> "Security middleware optimized"]]]
ShowcaseSummaries ==
  [all     |-> "Multi-system view",
   backend |-> "Backend view"]
ShowcaseLog == <<"api.v1.qa-scores POST 201", "jobs.qa-score-rollup SUCCESS", "sql.reporting VIEW REFRESHED">>
ShowcaseAudit == <<"jlee updated form", "kpatel updated role">>

\* part_001:780-892  the lab's data: KPI values per filter, summaries and
\* prompts.  The fixture followed here records no summary for devops (the
\* data inlined in part_001 records one for every filter).
LabKpis ==
  [backend |-> [deliverables |-> [value |-> "7", change |-> "API modules, jobs, and support services"]],
   data    |-> [deliverables |-> [value |-> "5", change |-> "Schema, migrations, reporting views"]],
   devops  |-> [deliverables |-> [value |-> "4", change |-> "Pipelines, quality gates, releases"]]]
\* A lab fixture that also records KPI values under 'all'.
LabKpisAll ==
  [k \in DOMAIN LabKpis \cup {"all"} |->
     IF k = "all" THEN [deliverables |-> [value |-> "16", change |-> "All tracks"]]
     ELSE LabKpis[k]]
LabSummaries ==
  [backend |-> [summary |-> "Backend view", deliverables |-> <<"API v1: QA Scores", "Job Scheduler">>],
   data    |-> [summary |-> "Data view",    deliverables |-> <<"Schema v2", "KPI views">>]]
LabPrompts ==
  [chatbot   |-> [title |-> "AI Chatbot for Contact Center QA"],
   dashboard |-> [title |-> "Data Visualization Studio"]]

\* script.js:539-542, 721-723  data.kpis || {}, data.summaries || {}, ...:
\* what a parsed fixture body records.
Kpis(body) ==
  CASE body = "showcase" -> ShowcaseKpis
    [] body = "lab"      -> LabKpis
    [] body = "lab-all"  -> LabKpisAll
    [] OTHER             -> EmptyObject
Summaries(body) ==
  CASE body = "showcase" -> ShowcaseSummaries
    [] body \in {"lab", "lab-all"} -> LabSummaries
    [] OTHER -> EmptyObject
LogStreamOf(body) == IF body = "showcase" THEN ShowcaseLog ELSE <<>>
AuditLogOf(body) == IF body = "showcase" THEN ShowcaseAudit ELSE <<>>
Prompts(body) == IF body \in {"lab", "lab-all"} THEN LabPrompts ELSE EmptyObject

\* script.js:532, 713  the filter the constructor starts from.
InitialFilter(w) == IF w = "showcase" THEN "all" ELSE "backend"

\* script.js:583, 757  tag => tag.trim() on the entries of the tag list.
Trim(entry) ==
  CASE entry = " security" -> "security"
    [] entry = "backend "  -> "backend"
    [] entry = " data "    -> "data"
    [] OTHER               -> entry

\* script.js:583  (card.dataset.showcaseTag || '').split(',').map(trim): the
\* tags of a card, from the comma-separated entries of its attribute.
TagsOf(rawEntries) == {Trim(rawEntries[j]) : j \in 1..Len(rawEntries)}

\* script.js:584, 758  shouldShow.
ShouldShow(w, tags, filter) ==
  IF w = "showcase" THEN filter = "all" \/ filter \in tags ELSE filter \in tags

\* script.js:507-521, 685-702 and the markup: the widget before init().
FilterMarkup(pg, w) ==
  LET m == pg.fw[w]
  IN [currentFilter |-> Undefined,
      kpiValues     |-> EmptyObject,
      summaryText   |-> EmptyObject,
      listening     |-> FALSE,
      btnActive     |-> [i \in 1..Len(m.buttons) |-> i = m.marked],
      btnPressed    |-> [i \in 1..Len(m.buttons) |-> IF i = m.marked THEN "true" ELSE "false"],
      cardDisplay   |-> [c \in 1..Len(m.cards) |-> ""],
      summary       |-> MarkupText,
      deliverables  |-> <<MarkupText>>,
      kpiValue      |-> [k \in m.kpiNodes |-> MarkupText],
      kpiChange     |-> [k \in m.kpiNodes |-> MarkupText],
      kpiPulse      |-> [k \in m.kpiNodes |-> FALSE],
      kpiPulseQ     |-> <<>>,
      logMessages   |-> <<>>,
      auditEntries  |-> <<>>,
      logText       |-> <<MarkupText>>,
      logOffset     |-> 0,
      logTimer      |-> FALSE,
      logTicks      |-> 0,
      auditText     |-> <<MarkupText>>,
      auditStart    |-> 0,
      auditTimer    |-> FALSE,
      auditTicks    |-> 0,
      promptData    |-> EmptyObject,
      chipActive    |-> [i \in 1..Len(m.chips) |-> FALSE],
      stepActive    |-> [j \in 1..Len(m.pipelineSteps) |-> FALSE],
      pipelineStatus |-> <<MarkupText>>,
      pipelineInterval |-> 0,
      runs          |-> <<>>,
      promptTitle   |-> MarkupText,
      retryStatus   |-> MarkupText,
      retryQ        |-> <<>>,
      retryClicks   |-> 0,
      retryFinalEver |-> FALSE,
      retryLateClick |-> FALSE]

\* script.js:592-599  BackendShowcase.updateSummary(); 766-777
\* PlatformLab.updateSummary().
UpdateSummary(pg, w, x) ==
  LET m == pg.fw[w]
      f == x.currentFilter
  IN IF w = "showcase"
       THEN IF ~m.hasSummary THEN x
            ELSE IF f \in DOMAIN x.summaryText THEN [x EXCEPT !.summary = x.summaryText[f]]
            ELSE IF "all" \in DOMAIN x.summaryText THEN [x EXCEPT !.summary = x.summaryText["all"]]
            ELSE x
     ELSE IF f \notin DOMAIN x.summaryText THEN x
          ELSE LET info == x.summaryText[f]
                   x1 == IF m.hasSummary THEN [x EXCEPT !.summary = info.summary] ELSE x
               IN IF m.hasDeliverables THEN [x1 EXCEPT !.deliverables = info.deliverables] ELSE x1

\* script.js:601-618, 779-796  updateKpis(): every KPI node whose key the
\* current filter records gets its texts, the 'pulse' class and a 600 ms
\* timer that removes the class.
UpdateKpis(pg, w, x) ==
  IF x.currentFilter \notin DOMAIN x.kpiValues THEN x
  ELSE LET values == x.kpiValues[x.currentFilter]
           hit    == SelectSeq(pg.fw[w].kpiOrder,
                               LAMBDA k : k \in pg.fw[w].kpiNodes /\ k \in DOMAIN values)
           isHit(k) == \E j \in 1..Len(hit) : hit[j] = k
       IN [x EXCEPT !.kpiValue  = [k \in pg.fw[w].kpiNodes |-> IF isHit(k) THEN values[k].value ELSE @[k]],
                    !.kpiChange = [k \in pg.fw[w].kpiNodes |-> IF isHit(k) THEN values[k].change ELSE @[k]],
                    !.kpiPulse  = [k \in pg.fw[w].kpiNodes |-> isHit(k) \/ @[k]],
                    !.kpiPulseQ = @ \o hit]

ApplyFilterAssignsFirst(pg, w, x, filter) ==
  IF filter = "" \/ filter \notin DOMAIN x.kpiValues THEN [x EXCEPT !.currentFilter = filter]
  ELSE LET m  == pg.fw[w]
           x1 == [x EXCEPT
                    !.currentFilter = filter,
                    !.btnActive  = [i \in 1..Len(m.buttons) |-> m.buttons[i] = filter],
                    !.btnPressed = [i \in 1..Len(m.buttons) |->
                                      IF m.buttons[i] = filter THEN "true" ELSE "false"],
                    !.cardDisplay = [c \in 1..Len(m.cards) |->
                                      IF ShouldShow(w, TagsOf(m.cards[c]), filter) THEN "" ELSE "none"]]
       IN UpdateKpis(pg, w, UpdateSummary(pg, w, x1))

\* script.js:570-590  BackendShowcase.applyFilter(filter); 746-764
\* PlatformLab.applyFilter(filter): the widget after the call.
ApplyFilter(pg, w, x, filter) ==
  IF filter = "" \/ filter \notin DOMAIN x.kpiValues THEN x
  ELSE LET m  == pg.fw[w]
           x1 == [x EXCEPT
                    !.currentFilter = filter,
                    !.btnActive  = [i \in 1..Len(m.buttons) |-> m.buttons[i] = filter],
                    !.btnPressed = [i \in 1..Len(m.buttons) |->
                                      IF m.buttons[i] = filter THEN "true" ELSE "false"],
                    !.cardDisplay = [c \in 1..Len(m.cards) |->
                                      IF ShouldShow(w, TagsOf(m.cards[c]), filter) THEN "" ELSE "none"]]
       IN UpdateKpis(pg, w, UpdateSummary(pg, w, x1))

\* script.js:819-838  PlatformLab.setPrompt(key).
SetPrompt(pg, x, key) ==
  IF key = "" \/ key \notin DOMAIN x.promptData THEN x
  ELSE LET m  == pg.fw["lab"]
           x1 == [x EXCEPT !.chipActive = [i \in 1..Len(m.chips) |-> m.chips[i] = key]]
       IN IF m.hasPromptTitle THEN [x1 EXCEPT !.promptTitle = x.promptData[key].title] ELSE x1

\* script.js:736-740  a click on prompt chip i.
PromptChipClick(i) ==
  /\ Idle
  /\ fw["lab"].listening
  /\ i \in 1..Len(page.fw["lab"].chips)
  /\ fw' = [fw EXCEPT !["lab"] = SetPrompt(page, @, page.fw["lab"].chips[i])]
  /\ event' = [op |-> "setPrompt", arg |-> page.fw["lab"].chips[i]]
  /\ UNCHANGED <<hostVars, loaderVars, initVars, dash, lib, live, nav, reveal>>

\* Ticks of each rotation timer one run follows.
MaxTicks == 4

\* script.js:652, 658  lines.join('\n'): the text, as its lines with a
\* newline between each two.
RECURSIVE Join(_)
Join(lines) ==
  IF lines = <<>> THEN <<>>
  ELSE IF Len(lines) = 1 THEN lines
  ELSE <<Head(lines), "\n">> \o Join(Tail(lines))

RotatedNot(buffer, offset) == SubSeq(buffer, 1, offset) \o SubSeq(buffer, offset + 1, Len(buffer))

\* script.js:658, 673  buffer.slice(offset).concat(buffer.slice(0, offset)).
Rotated(buffer, offset) == SubSeq(buffer, offset + 1, Len(buffer)) \o SubSeq(buffer, 1, offset)

\* startLogStreamRotation() without the test for an empty buffer.
StartLogStreamRotationUnguarded(pg, x) ==
  IF ~pg.fw["showcase"].hasLog THEN x
  ELSE [x EXCEPT !.logText = Join(x.logMessages), !.logOffset = 0, !.logTimer = TRUE]

\* script.js:648-653  startLogStreamRotation() up to its setInterval.
StartLogStreamRotation(pg, x) ==
  IF ~pg.fw["showcase"].hasLog \/ Len(x.logMessages) = 0 THEN x
  ELSE [x EXCEPT !.logText = Join(x.logMessages), !.logOffset = 0, !.logTimer = TRUE]

\* script.js:663-668  startAuditLogRotation() up to its setInterval.
StartAuditLogRotation(pg, x) ==
  IF ~pg.fw["showcase"].hasAudit \/ Len(x.auditEntries) = 0 THEN x
  ELSE [x EXCEPT !.auditText = Join(x.auditEntries), !.auditStart = 0, !.auditTimer = TRUE]

\* A tick that rotates the buffer itself (messages.push(messages.shift()))
\* and shows it.
LogStreamTickInPlace ==
  /\ Idle
  /\ fw["showcase"].logTimer
  /\ fw["showcase"].logTicks < MaxTicks
  /\ LET x == fw["showcase"]
     IN fw' = [fw EXCEPT !["showcase"] =
                 [x EXCEPT !.logMessages = Rotated(x.logMessages, 1),
                           !.logText = Join(Rotated(x.logMessages, 1)),
                           !.logTicks = @ + 1]]
  /\ event' = [op |-> "logTick", arg |-> ""]
  /\ UNCHANGED <<hostVars, loaderVars, initVars, dash, lib, live, nav, reveal>>

\* script.js:655-660  a tick of the log stream's 6000 ms interval.
LogStreamTick ==
  /\ Idle
  /\ fw["showcase"].logTimer
  /\ fw["showcase"].logTicks < MaxTicks
  /\ LET x == fw["showcase"]
         offset == (x.logOffset + 1) % Len(x.logMessages)
     IN fw' = [fw EXCEPT !["showcase"] =
                 [x EXCEPT !.logOffset = offset,
                           !.logText = Join(Rotated(x.logMessages, offset)),
                           !.logTicks = @ + 1]]
  /\ event' = [op |-> "logTick", arg |-> ""]
  /\ UNCHANGED <<hostVars, loaderVars, initVars, dash, lib, live, nav, reveal>>

\* script.js:670-675  a tick of the audit log's 8000 ms interval.
AuditLogTick ==
  /\ Idle
  /\ fw["showcase"].auditTimer
  /\ fw["showcase"].auditTicks < MaxTicks
  /\ LET x == fw["showcase"]
         start == (x.auditStart + 1) % Len(x.auditEntries)
     IN fw' = [fw EXCEPT !["showcase"] =
                 [x EXCEPT !.auditStart = start,
                           !.auditText = Join(Rotated(x.auditEntries, start)),
                           !.auditTicks = @ + 1]]
  /\ event' = [op |-> "auditTick", arg |-> ""]
  /\ UNCHANGED <<hostVars, loaderVars, initVars, dash, lib, live, nav, reveal>>

\* Pipeline runs one run of the model starts.
MaxRuns == 2

\* script.js:800, 815  clearInterval(handle): the interval of that handle
\* ticks no more; null and a handle already cleared are ignored.
ClearInterval(runs, handle) ==
  IF handle = 0 THEN runs ELSE [runs EXCEPT ![handle].live = FALSE]

RunPipelineNoCancel(pg, x) ==
  LET m == pg.fw["lab"]
  IN IF Len(m.pipelineSteps) = 0 \/ ~m.hasPipelineStatus THEN x
     ELSE [x EXCEPT !.stepActive = [j \in 1..Len(m.pipelineSteps) |-> FALSE],
                    !.pipelineStatus = <<"Pipeline started...">>,
                    !.runs = Append(x.runs, [index |-> 0, live |-> TRUE, ticks |-> 0]),
                    !.pipelineInterval = Len(x.runs) + 1]

\* runPipeline() leaving the steps' markers as the previous run left them.
RunPipelineKeepsSteps(pg, x) ==
  LET m == pg.fw["lab"]
  IN IF Len(m.pipelineSteps) = 0 \/ ~m.hasPipelineStatus THEN x
     ELSE LET cleared == ClearInterval(x.runs, x.pipelineInterval)
          IN [x EXCEPT !.pipelineStatus = <<"Pipeline started...">>,
                       !.runs = Append(cleared, [index |-> 0, live |-> TRUE, ticks |-> 0]),
                       !.pipelineInterval = Len(x.runs) + 1]

\* script.js:798-806  runPipeline() up to its setInterval: the interval of
\* the previous run is cleared, the steps and the status line are reset and a
\* new interval starts with index 0.  A run is [index, live, ticks]: the
\* closure's index, whether its interval still ticks, and how often it has.
RunPipeline(pg, x) ==
  LET m == pg.fw["lab"]
  IN IF Len(m.pipelineSteps) = 0 \/ ~m.hasPipelineStatus THEN x
     ELSE LET cleared == ClearInterval(x.runs, x.pipelineInterval)
          IN [x EXCEPT !.stepActive = [j \in 1..Len(m.pipelineSteps) |-> FALSE],
                       !.pipelineStatus = <<"Pipeline started...">>,
                       !.runs = Append(cleared, [index |-> 0, live |-> TRUE, ticks |-> 0]),
                       !.pipelineInterval = Len(x.runs) + 1]

TickedNoDeactivate(pg, x, r) ==
  LET m     == pg.fw["lab"]
      index == x.runs[r].index
  IN IF index < Len(m.pipelineSteps)
       THEN [x EXCEPT !.stepActive[index + 1] = TRUE,
                      !.pipelineStatus = <<"Running: ", m.pipelineSteps[index + 1]>>,
                      !.runs[r].index = index + 1,
                      !.runs[r].ticks = @ + 1]
     ELSE [x EXCEPT !.pipelineStatus = <<"Pipeline complete. Release ready.">>,
                    !.runs = [ClearInterval(x.runs, x.pipelineInterval) EXCEPT ![r].ticks = @ + 1]]

\* script.js:806-816  the interval callback of run r: the widget after one
\* tick (steps[index - 1] of the code is step number index here).
Ticked(pg, x, r) ==
  LET m     == pg.fw["lab"]
      index == x.runs[r].index
      x1    == IF index > 0 THEN [x EXCEPT !.stepActive[index] = FALSE] ELSE x
  IN IF index < Len(m.pipelineSteps)
       THEN [x1 EXCEPT !.stepActive[index + 1] = TRUE,
                       !.pipelineStatus = <<"Running: ", m.pipelineSteps[index + 1]>>,
                       !.runs[r].index = index + 1,
                       !.runs[r].ticks = @ + 1]
     ELSE [x1 EXCEPT !.pipelineStatus = <<"Pipeline complete. Release ready.">>,
                     !.runs = [ClearInterval(x.runs, x.pipelineInterval) EXCEPT ![r].ticks = @ + 1]]

\* script.js:732-734  a click on the pipeline button.
PipelineClick ==
  /\ Idle
  /\ fw["lab"].listening
  /\ page.fw["lab"].hasPipeline
  /\ Len(fw["lab"].runs) < MaxRuns
  /\ fw' = [fw EXCEPT !["lab"] = RunPipeline(page, @)]
  /\ event' = [op |-> "runPipeline", arg |-> 0]
  /\ UNCHANGED <<hostVars, loaderVars, initVars, dash, lib, live, nav, reveal>>

\* script.js:806-816  the 900 ms interval of run r ticks.
PipelineTick(r) ==
  /\ Idle
  /\ r \in 1..Len(fw["lab"].runs)
  /\ fw["lab"].runs[r].live
  /\ fw' = [fw EXCEPT !["lab"] = Ticked(page, @, r)]
  /\ event' = [op |-> "pipelineTick", arg |-> r]
  /\ UNCHANGED <<hostVars, loaderVars, initVars, dash, lib, live, nav, reveal>>

\* script.js:547-548, 728-729  a click on filter button i of widget w.
ClickFilterButton(w, i) ==
  /\ Idle
  /\ w \in FilterWidgets
  /\ fw[w].listening
  /\ i \in 1..Len(page.fw[w].buttons)
  /\ Len(fw[w].kpiPulseQ) + Cardinality(page.fw[w].kpiNodes) <= MaxKpiTimers
  /\ fw' = [fw EXCEPT ![w] = ApplyFilter(page, w, @, page.fw[w].buttons[i])]
  /\ event' = [op |-> "applyFilter", arg |-> page.fw[w].buttons[i], widget |-> w]
  /\ UNCHANGED <<hostVars, loaderVars, initVars, dash, lib, live, nav, reveal>>

\* script.js:616, 794  the oldest pending KPI pulse timer of widget w fires.
KpiPulseFires(w) ==
  /\ Idle
  /\ fw[w].kpiPulseQ # <<>>
  /\ fw' = [fw EXCEPT ![w] = [@ EXCEPT !.kpiPulse[Head(fw[w].kpiPulseQ)] = FALSE,
                                      !.kpiPulseQ = Tail(@)]]
  /\ event' = [op |-> "kpiPulseFires", arg |-> w]
  /\ UNCHANGED <<hostVars, loaderVars, initVars, dash, lib, live, nav, reveal>>

\* script.js:629-633  the messages of the simulated retry.
RetrySteps ==
  <<"Attempt 1 failed: SQL timeout. Waiting 2s...",
    "Attempt 2 failed: transient network error. Waiting 4s...",
    "Attempt 3 succeeded: rollup completed.">>
RetryFinal == RetrySteps[Len(RetrySteps)]

\* Clicks on the retry button one run may hold.
MaxRetryClicks == 4

\* script.js:627-646  simulateRetries(): without status element nothing;
\* else the first message is written and an interval of 1000 ms started with
\* its own index.  retryQ holds the live intervals in the order their next
\* tick is due: all have the same period, so a new interval and an interval
\* that just ticked are due after every other.  retryFinalEver: the final
\* message was shown at some time; retryLateClick: the button was clicked
\* after that.
SimulateRetries(pg, x) ==
  IF ~pg.fw["showcase"].hasRetryStatus THEN x
  ELSE [x EXCEPT !.retryStatus = RetrySteps[1],
                 !.retryQ = Append(@, [index |-> 0]),
                 !.retryLateClick = @ \/ x.retryFinalEver]

\* script.js:555-557  a click on the retry button.
RetryClick ==
  /\ Idle
  /\ fw["showcase"].listening
  /\ page.fw["showcase"].hasRetryButton
  /\ fw["showcase"].retryClicks < MaxRetryClicks
  /\ fw' = [fw EXCEPT !["showcase"] =
              [SimulateRetries(page, @) EXCEPT !.retryClicks = @ + 1]]
  /\ event' = [op |-> "retryClick", arg |-> ""]
  /\ UNCHANGED <<hostVars, loaderVars, initVars, dash, lib, live, nav, reveal>>

\* script.js:638-645  the interval whose tick is due first ticks: past the
\* last message it cancels itself, else it writes the message of its index.
RetryTick ==
  /\ Idle
  /\ fw["showcase"].retryQ # <<>>
  /\ LET x == fw["showcase"]
         index == Head(x.retryQ).index + 1
     IN fw' = [fw EXCEPT !["showcase"] =
                 IF index >= Len(RetrySteps)
                   THEN [x EXCEPT !.retryQ = Tail(@)]
                   ELSE [x EXCEPT !.retryStatus = RetrySteps[index + 1],
                                  !.retryQ = Append(Tail(@), [index |-> index]),
                                  !.retryFinalEver = @ \/ RetrySteps[index + 1] = RetryFinal]]
  /\ event' = [op |-> "retryTick", arg |-> Head(fw["showcase"].retryQ).index + 1]
  /\ UNCHANGED <<hostVars, loaderVars, initVars, dash, lib, live, nav, reveal>>

\* ------------------------------------------------------------------------
\* Learning library
\* ------------------------------------------------------------------------

\* script.js:855, 883, 890, 897  the visible-count window and its increment.
PageSize == 12

\* Texts are sequences of characters, so that trimming, lower-casing and
\* substring search are computed.
Lower(ch) ==
  CASE ch = "S" -> "s" [] ch = "Q" -> "q" [] ch = "L" -> "l" [] ch = "A" -> "a" [] OTHER -> ch
ToLowerCase(str) == [j \in 1..Len(str) |-> Lower(str[j])]

RECURSIVE TrimStart(_)
TrimStart(str) == IF str # <<>> /\ Head(str) = " " THEN TrimStart(Tail(str)) ELSE str
RECURSIVE TrimEnd(_)
TrimEnd(str) ==
  IF str # <<>> /\ str[Len(str)] = " " THEN TrimEnd(SubSeq(str, 1, Len(str) - 1)) ELSE str
TrimText(str) == TrimEnd(TrimStart(str))

\* String.prototype.includes.
Includes(hay, needle) ==
  \E start \in 1..(Len(hay) + 1) :
    /\ start + Len(needle) - 1 <= Len(hay)
    /\ \A j \in 1..Len(needle) : hay[start + j - 1] = needle[j]

RECURSIVE JoinSp(_)
JoinSp(strs) ==
  IF strs = <<>> THEN <<>>
  ELSE IF Len(strs) = 1 THEN strs[1]
  ELSE strs[1] \o <<" ">> \o JoinSp(Tail(strs))

\* The catalog the library fixture holds.
Catalog ==
  << [track |-> "sql", level |-> "beginner", title |-> <<"S","Q","L">>, summary |-> <<"a">>,
      focus |-> <<"q">>, tags |-> << <<"d","b">> >>, hasTags |-> TRUE],
     [track |-> "sql", level |-> "advanced", title |-> <<"l","a","b">>, summary |-> <<"s">>,
      focus |-> <<"a">>, tags |-> <<>>, hasTags |-> FALSE],
     [track |-> "api", level |-> "beginner", title |-> <<"A","s">>, summary |-> <<"q">>,
      focus |-> <<"l">>, tags |-> << <<"s","q","l">> >>, hasTags |-> TRUE] >>

\* script.js:864-865  what this.items is after the load: the parsed body when
\* it is an array; any other body has no filter method.
IsArray(body) == body \in {"library", "library-large"}
\* A catalog of more items of one track than one page of the grid shows,
\* exactly one page of them of one level.
LargeCatalog ==
  Catalog \o [j \in 1..(PageSize - 1) |->
                [track |-> "sql", level |-> "beginner", title |-> <<"s">>, summary |-> <<"q">>,
                 focus |-> <<"l">>, tags |-> <<>>, hasTags |-> TRUE]]
ItemsOf(body) ==
  IF body = "library" THEN Catalog ELSE IF body = "library-large" THEN LargeCatalog ELSE <<>>

\* script.js:909  the searchable text of an item.
Haystack(item) ==
  ToLowerCase(item.title \o <<" ">> \o item.summary \o <<" ">> \o item.focus \o <<" ">>
              \o JoinSp(IF item.hasTags THEN item.tags ELSE <<>>))

\* script.js:847-857 and the markup: section s before init().
LibraryMarkup(pg, s) ==
  [items |-> <<>>, filteredItems |-> <<>>, visibleCount |-> PageSize, bound |-> FALSE,
   gridKind |-> "markup", gridCards |-> <<>>, gridEmpty |-> FALSE,
   countLabel |-> 0, countShown |-> FALSE,
   moreDisabled |-> FALSE, moreLabel |-> MarkupText,
   searchValue |-> <<>>, levelValue |-> "all", debounce |-> 0, burst |-> 0]

Min(a, b) == IF a <= b THEN a ELSE b

\* render() showing only the page last added to the window.
RenderWindowOnly(pg, s, L) ==
  LET visibleItems == SubSeq(L.filteredItems, L.visibleCount - PageSize + 1,
                             IF L.visibleCount <= Len(L.filteredItems)
                               THEN L.visibleCount ELSE Len(L.filteredItems))
  IN [L EXCEPT !.gridKind = "cards", !.gridCards = visibleItems,
               !.gridEmpty = (Len(visibleItems) = 0),
               !.countLabel = Len(L.filteredItems), !.countShown = TRUE,
               !.moreDisabled = (L.visibleCount >= Len(L.filteredItems)),
               !.moreLabel = IF L.visibleCount >= Len(L.filteredItems)
                               THEN "All modules loaded" ELSE "Load more modules"]

\* render() disabling the control only past the last item.
RenderDisablesLate(pg, s, L) ==
  LET visibleItems == SubSeq(L.filteredItems, 1,
                             IF L.visibleCount <= Len(L.filteredItems)
                               THEN L.visibleCount ELSE Len(L.filteredItems))
  IN [L EXCEPT !.gridKind = "cards", !.gridCards = visibleItems,
               !.gridEmpty = (Len(visibleItems) = 0),
               !.countLabel = Len(L.filteredItems), !.countShown = TRUE,
               !.moreDisabled = (L.visibleCount > Len(L.filteredItems)),
               !.moreLabel = IF L.visibleCount > Len(L.filteredItems)
                               THEN "All modules loaded" ELSE "Load more modules"]

\* render() without the 'no matches' message.
RenderNoEmptyMessage(pg, s, L) ==
  LET visibleItems == SubSeq(L.filteredItems, 1,
                             IF L.visibleCount <= Len(L.filteredItems)
                               THEN L.visibleCount ELSE Len(L.filteredItems))
  IN [L EXCEPT !.gridKind = "cards", !.gridCards = visibleItems,
               !.gridEmpty = FALSE,
               !.countLabel = Len(L.filteredItems), !.countShown = TRUE,
               !.moreDisabled = (L.visibleCount >= Len(L.filteredItems)),
               !.moreLabel = IF L.visibleCount >= Len(L.filteredItems)
                               THEN "All modules loaded" ELSE "Load more modules"]

\* script.js:917-962  render(): the grid shows the first visibleCount
\* filtered items, or the 'no matches' message; the count label and the
\* 'load more' control follow.
Render(pg, s, L) ==
  LET m == pg.lib[s]
  IN IF ~m.hasGrid THEN L
     ELSE LET visibleItems == SubSeq(L.filteredItems, 1, Min(L.visibleCount, Len(L.filteredItems)))
              L1 == [L EXCEPT !.gridKind = "cards", !.gridCards = visibleItems,
                              !.gridEmpty = (Len(visibleItems) = 0)]
              L2 == IF m.hasCount
                      THEN [L1 EXCEPT !.countLabel = Len(L.filteredItems), !.countShown = TRUE]
                      ELSE L1
          IN IF m.hasMore
               THEN [L2 EXCEPT !.moreDisabled = (L.visibleCount >= Len(L.filteredItems)),
                               !.moreLabel = IF L.visibleCount >= Len(L.filteredItems)
                                               THEN "All modules loaded" ELSE "Load more modules"]
               ELSE L2

\* applyFilters() with the query trimmed but not lower-cased.
ApplyFiltersCaseSensitive(pg, s, L) ==
  LET m     == pg.lib[s]
      query == IF m.hasSearch THEN TrimText(L.searchValue) ELSE <<>>
      level == IF m.hasLevel THEN L.levelValue ELSE "all"
      pass(j) == /\ L.items[j].track = m.track
                 /\ (level = "all" \/ L.items[j].level = level)
                 /\ (query = <<>> \/ Includes(Haystack(L.items[j]), query))
      idx == [j \in 1..Len(L.items) |-> j]
  IN Render(pg, s, [L EXCEPT !.filteredItems = SelectSeq(idx, pass)])

\* script.js:903-915  applyFilters(): filteredItems holds the indexes (into
\* items) of the items that pass, in catalog order; then render().
ApplyFilters(pg, s, L) ==
  LET m     == pg.lib[s]
      query == IF m.hasSearch THEN ToLowerCase(TrimText(L.searchValue)) ELSE <<>>
      level == IF m.hasLevel THEN L.levelValue ELSE "all"
      pass(j) == /\ L.items[j].track = m.track
                 /\ (level = "all" \/ L.items[j].level = level)
                 /\ (query = <<>> \/ Includes(Haystack(L.items[j]), query))
      idx == [j \in 1..Len(L.items) |-> j]
  IN Render(pg, s, [L EXCEPT !.filteredItems = SelectSeq(idx, pass)])

\* What the user types into the search field, and the options of the level
\* select.
SearchTexts ==
  {<<>>, <<" ">>, <<"s">>, <<" ", "S", "Q", " ">>, <<"l", " ", "a">>, <<"z">>}
LevelOptions == {"all", "beginner", "advanced"}

\* The longest burst of keystrokes followed.
MaxBurst == 3

\* The debounced listener without clearTimeout: every keystroke adds a timer.
LibraryInputNoCancel(sec, text) ==
  /\ Idle
  /\ sec \in 1..Len(page.lib)
  /\ page.lib[sec].hasSearch
  /\ text # lib[sec].searchValue
  /\ lib[sec].burst < MaxBurst
  /\ lib' = [lib EXCEPT ![sec] =
               [@ EXCEPT !.searchValue = text,
                         !.debounce = IF lib[sec].bound THEN @ + 1 ELSE @,
                         !.burst = IF lib[sec].bound THEN @ + 1 ELSE @]]
  /\ event' = [op |-> "libraryInput", arg |-> LibName(sec)]
  /\ UNCHANGED <<hostVars, loaderVars, initVars, dash, fw, live, nav, reveal>>

\* script.js:12-18, 882-885  the user edits the search field: the field
\* holds the text; the debounced listener, once bound, cancels its pending
\* timer and sets a new one.  debounce counts the listener's pending timers,
\* burst the keystrokes since its timer last fired.
LibraryInput(sec, text) ==
  /\ Idle
  /\ sec \in 1..Len(page.lib)
  /\ page.lib[sec].hasSearch
  /\ text # lib[sec].searchValue
  /\ lib[sec].burst < MaxBurst
  /\ lib' = [lib EXCEPT ![sec] =
               [@ EXCEPT !.searchValue = text,
                         !.debounce = IF lib[sec].bound THEN 1 ELSE @,
                         !.burst = IF lib[sec].bound THEN @ + 1 ELSE @]]
  /\ event' = [op |-> "libraryInput", arg |-> LibName(sec)]
  /\ UNCHANGED <<hostVars, loaderVars, initVars, dash, fw, live, nav, reveal>>

\* script.js:15, 882-885  a debounce timer fires: the first page of the
\* filtered items.
LibraryDebounceFires(sec) ==
  /\ Idle
  /\ sec \in 1..Len(page.lib)
  /\ lib[sec].debounce > 0
  /\ lib' = [lib EXCEPT ![sec] =
               ApplyFilters(page, sec, [@ EXCEPT !.visibleCount = PageSize,
                                                 !.debounce = @ - 1, !.burst = 0])]
  /\ event' = [op |-> "libraryDebounce", arg |-> LibName(sec), burst |-> lib[sec].burst]
  /\ UNCHANGED <<hostVars, loaderVars, initVars, dash, fw, live, nav, reveal>>

\* The level listener filtering again without resetting the window.
LibraryLevelChangeKeepsWindow(sec, level) ==
  /\ Idle
  /\ sec \in 1..Len(page.lib)
  /\ page.lib[sec].hasLevel
  /\ level # lib[sec].levelValue
  /\ lib' = [lib EXCEPT ![sec] =
               IF @.bound
                 THEN ApplyFilters(page, sec, [@ EXCEPT !.levelValue = level])
                 ELSE [@ EXCEPT !.levelValue = level]]
  /\ event' = [op |-> "libraryLevel", arg |-> LibName(sec), applied |-> lib[sec].bound,
               window |-> lib[sec].visibleCount]
  /\ UNCHANGED <<hostVars, loaderVars, initVars, dash, fw, live, nav, reveal>>

\* script.js:888-893  the user picks a level: the select holds it, and the
\* listener, once bound, shows the first page of the filtered items.
LibraryLevelChange(sec, level) ==
  /\ Idle
  /\ sec \in 1..Len(page.lib)
  /\ page.lib[sec].hasLevel
  /\ level # lib[sec].levelValue
  /\ lib' = [lib EXCEPT ![sec] =
               IF @.bound
                 THEN ApplyFilters(page, sec, [@ EXCEPT !.levelValue = level,
                                                        !.visibleCount = PageSize])
                 ELSE [@ EXCEPT !.levelValue = level]]
  /\ event' = [op |-> "libraryLevel", arg |-> LibName(sec), applied |-> lib[sec].bound,
               window |-> lib[sec].visibleCount]
  /\ UNCHANGED <<hostVars, loaderVars, initVars, dash, fw, live, nav, reveal>>

\* script.js:895-900  a click on 'load more' (a disabled button takes no
\* click): one more page, rendered from the items last filtered.
LibraryLoadMore(sec) ==
  /\ Idle
  /\ sec \in 1..Len(page.lib)
  /\ page.lib[sec].hasMore
  /\ lib[sec].bound
  /\ ~lib[sec].moreDisabled
  /\ lib' = [lib EXCEPT ![sec] =
               Render(page, sec, [@ EXCEPT !.visibleCount = @ + PageSize])]
  /\ event' = [op |-> "libraryMore", arg |-> LibName(sec)]
  /\ UNCHANGED <<hostVars, loaderVars, initVars, dash, fw, live, nav, reveal>>

\* ------------------------------------------------------------------------
\* Scroll reveal
\* ------------------------------------------------------------------------

\* The elements the five selectors of script.js:389-395 match, numbered.
Animatables(pg) == 1..pg.animatable

\* The markup: no inline style, nothing observed.  `intersecting` is what
\* the observer last reported of the element, `seen` whether it was ever
\* reported intersecting.
RevealMarkup(pg) ==
  [opacity |-> [e \in Animatables(pg) |-> ""],
   transform |-> [e \in Animatables(pg) |-> ""],
   observed |-> FALSE,
   intersecting |-> [e \in Animatables(pg) |-> "unknown"],
   seen |-> [e \in Animatables(pg) |-> FALSE]]

\* init() hiding the elements before it looks for IntersectionObserver.
ScrollInitHidesFirst(pg, rv) ==
  [rv EXCEPT !.opacity = [e \in Animatables(pg) |-> "0"],
             !.transform = [e \in Animatables(pg) |-> "translateY(20px)"],
             !.observed = pg.hasIO]

\* script.js:375-403  ScrollAnimations.init(): with an IntersectionObserver
\* every animatable element is hidden, offset and observed.
ScrollInit(pg, rv) ==
  IF ~pg.hasIO THEN rv
  ELSE [rv EXCEPT !.opacity = [e \in Animatables(pg) |-> "0"],
                  !.transform = [e \in Animatables(pg) |-> "translateY(20px)"],
                  !.observed = TRUE]

\* handleIntersection() hiding the elements that left the viewport.
HandleIntersectionHides(rv, entries) ==
  [rv EXCEPT !.opacity = [e \in DOMAIN rv.opacity |->
                            IF e \in DOMAIN entries
                              THEN IF entries[e] THEN "1" ELSE "0"
                              ELSE rv.opacity[e]],
             !.transform = [e \in DOMAIN rv.transform |->
                              IF e \in DOMAIN entries
                                THEN IF entries[e] THEN "translateY(0)" ELSE "translateY(20px)"
                                ELSE rv.transform[e]]]

\* script.js:406-413  handleIntersection(entries): entries maps each
\* reported element to its isIntersecting.
HandleIntersection(rv, entries) ==
  [rv EXCEPT !.opacity = [e \in DOMAIN rv.opacity |->
                            IF e \in DOMAIN entries /\ entries[e] THEN "1" ELSE rv.opacity[e]],
             !.transform = [e \in DOMAIN rv.transform |->
                              IF e \in DOMAIN entries /\ entries[e]
                                THEN "translateY(0)" ELSE rv.transform[e]]]

Reported(b) == IF b THEN "in" ELSE "out"

\* script.js:382-385  the observer calls back: it reports the observed
\* elements whose intersection changed (the first report of an element says
\* where it stands).
ObserverReports ==
  /\ Idle
  /\ reveal.observed
  /\ \E S \in SUBSET Animatables(page) \ {{}} :
       \E entries \in [S -> BOOLEAN] :
         /\ \A e \in S : Reported(entries[e]) # reveal.intersecting[e]
         /\ reveal' = [HandleIntersection(reveal, entries) EXCEPT
                         !.intersecting = [e \in Animatables(page) |->
                                             IF e \in S THEN Reported(entries[e])
                                             ELSE reveal.intersecting[e]],
                         !.seen = [e \in Animatables(page) |->
                                     reveal.seen[e] \/ (e \in S /\ entries[e])]]
         /\ event' = [op |-> "observer", arg |-> S]
  /\ UNCHANGED <<hostVars, loaderVars, initVars, dash, fw, lib, live, nav>>

\* ------------------------------------------------------------------------
\* Page initialization: init()
\* ------------------------------------------------------------------------

\* script.js:1003-1005  the one catch of init(): the steps after the one
\* that threw are skipped.
Caught(w) == "caught"

\* script.js:83-94, 973-974  new MobileNavigation().
InitNav ==
  /\ pagePc = "nav"
  /\ phase' = [phase EXCEPT !["nav"] = IF page.nav THEN "ready" ELSE "inert"]
  /\ pagePc' = After("nav")
  /\ nav' = [nav EXCEPT !.listening = page.nav]
  /\ event' = [op |-> "init", arg |-> "nav"]
  /\ UNCHANGED <<hostVars, loaderVars, console, unhandled, dash, fw, lib, live, reveal>>

\* script.js:330-341, 976-977  new DashboardManager(): without a section it
\* returns; script.js starts the asynchronous init() (the load); part_001
\* (389-403), with its datasets inline, constructs the section at once, and
\* what the section's constructor throws reaches init().
InitDashboard ==
  /\ pagePc = "dashboard"
  /\ event' = [op |-> "init", arg |-> "dashboard"]
  /\ IF ~page.dashSection
       THEN /\ phase' = [phase EXCEPT !["dashboard"] = "inert"]
            /\ pagePc' = After("dashboard")
            /\ UNCHANGED <<loaderVars, console, unhandled, widgetVars>>
     ELSE IF page.script = "assets"
       THEN /\ LoadJsonData("dashboard", DashUrl)
            /\ phase' = [phase EXCEPT !["dashboard"] = "loading"]
            /\ pagePc' = After("dashboard")
            /\ UNCHANGED <<console, unhandled, widgetVars>>
     ELSE LET r == NewDashboardSection(page, dash, live, console, DashDataSet("dash-full"))
          IN /\ dash' = r.dash
             /\ live' = r.live
             /\ phase' = [phase EXCEPT !["dashboard"] = r.outcome]
             /\ pagePc' = IF r.outcome = "threw" THEN Caught("dashboard") ELSE After("dashboard")
             /\ console' = IF r.outcome = "threw" THEN r.console \cup {"Initialization error"}
                           ELSE r.console
             /\ UNCHANGED <<loaderVars, unhandled, fw, lib>>
  /\ UNCHANGED <<hostVars, nav, reveal>>

\* script.js:366-404, 979-980  new ScrollAnimations(): disabled where the
\* browser has no IntersectionObserver.
InitScroll ==
  /\ pagePc = "scroll"
  /\ phase' = [phase EXCEPT !["scroll"] = IF page.hasIO THEN "ready" ELSE "inert"]
  /\ pagePc' = After("scroll")
  /\ event' = [op |-> "init", arg |-> "scroll"]
  /\ reveal' = ScrollInit(page, reveal)
  /\ UNCHANGED <<hostVars, loaderVars, console, unhandled, dash, fw, lib, live, nav>>

\* script.js:473-499, 982-983  initSmoothScroll().
InitSmooth ==
  /\ pagePc = "smooth"
  /\ phase' = [phase EXCEPT !["smooth"] = "ready"]
  /\ pagePc' = After("smooth")
  /\ event' = [op |-> "init", arg |-> "smooth"]
  /\ UNCHANGED <<hostVars, loaderVars, console, unhandled, widgetVars>>

\* The constructors going on whatever the page holds.
HasMarkersAlways(pg, w) == TRUE

\* script.js:523-530, 704-711  the constructor's test for its markers.
HasMarkers(pg, w) ==
  LET m == pg.fw[w]
  IN IF w = "showcase"
       THEN ~(Len(m.buttons) = 0 /\ Len(m.cards) = 0 /\ ~m.hasSummary /\ m.kpiNodes = {})
       ELSE ~(Len(m.buttons) = 0 /\ Len(m.cards) = 0 /\ ~m.hasPipeline /\ Len(m.chips) = 0)

\* part_001:624-644  BackendShowcase.init() with the data inline: listeners
\* and the rotation timers (the text is first written by a tick).
ShowcaseInitInline(pg, x) ==
  LET x1 == [x EXCEPT !.kpiValues = ShowcaseKpis, !.summaryText = ShowcaseSummaries,
                      !.listening = TRUE]
      x2 == IF pg.fw["showcase"].hasLog
              THEN [x1 EXCEPT !.logMessages = ShowcaseLog, !.logOffset = 0, !.logTimer = TRUE]
              ELSE x1
  IN IF pg.fw["showcase"].hasAudit
       THEN [x2 EXCEPT !.auditEntries = ShowcaseAudit, !.auditStart = 0, !.auditTimer = TRUE]
       ELSE x2

\* part_001:908-925  PlatformLab.init() with the data inline.
LabInitInline(pg, x) ==
  LET x1 == [x EXCEPT !.kpiValues = LabKpis, !.summaryText = LabSummaries,
                      !.promptData = LabPrompts, !.listening = TRUE]
  IN SetPrompt(pg, ApplyFilter(pg, "lab", x1, x1.currentFilter), "chatbot")

\* script.js:506-534, 684-716, 985-989  new BackendShowcase() / new
\* PlatformLab(): without markers it returns; else the initial filter is set
\* and init() starts (script.js: the load; part_001: the whole set-up).
InitFilterWidget(w) ==
  /\ pagePc = w
  /\ w \in FilterWidgets
  /\ pagePc' = After(w)
  /\ event' = [op |-> "init", arg |-> w]
  /\ IF ~HasMarkers(page, w)
       THEN /\ phase' = [phase EXCEPT ![w] = "inert"]
            /\ UNCHANGED <<loaderVars, fw>>
     ELSE IF page.script = "assets"
       THEN /\ LoadJsonData(w, IF w = "showcase" THEN ShowcaseUrl ELSE LabUrl)
            /\ fw' = [fw EXCEPT ![w].currentFilter = InitialFilter(w)]
            /\ phase' = [phase EXCEPT ![w] = "loading"]
     ELSE /\ fw' = [fw EXCEPT ![w] =
                      LET x == [@ EXCEPT !.currentFilter = InitialFilter(w)]
                      IN IF w = "showcase" THEN ShowcaseInitInline(page, x)
                         ELSE LabInitInline(page, x)]
          /\ phase' = [phase EXCEPT ![w] = "ready"]
          /\ UNCHANGED loaderVars
  /\ UNCHANGED <<hostVars, console, unhandled, dash, lib, live, nav, reveal>>

\* script.js:860-864, 991-995  one section of the library loop: new
\* LearningLibrary(section) and init() up to its await; a section without
\* track or grid starts nothing.
InitLibrary(sec) ==
  /\ pagePc = LibName(sec)
  /\ pagePc' = After(LibName(sec))
  /\ event' = [op |-> "init", arg |-> LibName(sec)]
  /\ IF sec > Len(page.lib)
       THEN UNCHANGED <<loaderVars, phase>>
     ELSE IF page.lib[sec].track = "" \/ ~page.lib[sec].hasGrid
       THEN /\ phase' = [phase EXCEPT ![LibName(sec)] = "inert"]
            /\ UNCHANGED loaderVars
     ELSE /\ LoadJsonData(LibName(sec), page.lib[sec].source)
          /\ phase' = [phase EXCEPT ![LibName(sec)] = "loading"]
  /\ UNCHANGED <<hostVars, console, unhandled, widgetVars>>

\* script.js:997-1002  the performance monitor (on localhost only) and the
\* closing log line.
InitPerf ==
  /\ pagePc = "perf"
  /\ phase' = [phase EXCEPT !["perf"] = IF page.localhost THEN "ready" ELSE "inert"]
  /\ pagePc' = After("perf")
  /\ event' = [op |-> "init", arg |-> "perf"]
  /\ UNCHANGED <<hostVars, loaderVars, console, unhandled, widgetVars>>

InitSteps ==
  \/ InitNav
  \/ InitDashboard
  \/ InitScroll
  \/ InitSmooth
  \/ \E w \in FilterWidgets : InitFilterWidget(w)
  \/ \E sec \in 1..2 : InitLibrary(sec)
  \/ InitPerf

\* ------------------------------------------------------------------------
\* The asynchronous init() of each widget, from its await on
\* ------------------------------------------------------------------------

\* script.js:343-358  DashboardManager.init() resumes.  A failed load is
\* logged and nothing more happens.  Otherwise the section's dataset is looked
\* up (on a body that parsed to null the lookup throws) and the
\* DashboardSection is constructed; nothing catches what this part throws, so
\* it rejects the promise of init(), which nobody handles.
DashboardResumes ==
  /\ pagePc \in Finished
  /\ phase["dashboard"] = "loading"
  /\ \E i \in SettledCallOf("dashboard") :
       IF calls[i].pc = "failed"
         THEN /\ console' = console \cup {"Unable to load dashboard metrics data"}
              /\ phase' = [phase EXCEPT !["dashboard"] = "failed"]
              /\ UNCHANGED <<unhandled, dash, live>>
       ELSE IF calls[i].result.body = "null"
         THEN /\ unhandled' = unhandled \cup {"TypeError: dataSets is null"}
              /\ phase' = [phase EXCEPT !["dashboard"] = "threw"]
              /\ UNCHANGED <<console, dash, live>>
       ELSE IF DashDataSet(calls[i].result.body) = NoDataSet
         THEN /\ phase' = [phase EXCEPT !["dashboard"] = "nodata"]
              /\ UNCHANGED <<console, unhandled, dash, live>>
       ELSE LET r == NewDashboardSection(page, dash, live, console,
                                         DashDataSet(calls[i].result.body))
            IN /\ dash' = r.dash
               /\ live' = r.live
               /\ console' = r.console
               /\ phase' = [phase EXCEPT !["dashboard"] = r.outcome]
               /\ unhandled' = IF r.outcome = "threw"
                                 THEN unhandled \cup {"TypeError: viewButtons.find is not a function"}
                                 ELSE unhandled
  /\ event' = [op |-> "resume", arg |-> "dashboard"]
  /\ UNCHANGED <<hostVars, loaderVars, pagePc, fw, lib, nav, reveal>>

\* script.js:537-545, 719-726  the try block of the widget's init(): the
\* fields read from the loaded data; reading a property of null throws.
WithData(w, x, body) ==
  LET x1 == [x EXCEPT !.kpiValues = Kpis(body), !.summaryText = Summaries(body)]
  IN IF w = "showcase"
       THEN [x1 EXCEPT !.logMessages = LogStreamOf(body), !.auditEntries = AuditLogOf(body)]
       ELSE [x1 EXCEPT !.promptData = Prompts(body)]

\* script.js:547-567, 728-743  the rest of init(), which runs whether or not
\* the load succeeded: listeners, rotations, the initial filter (and prompt).
AfterTry(pg, w, x) ==
  LET x1 == [x EXCEPT !.listening = TRUE]
  IN IF w = "showcase"
       THEN ApplyFilter(pg, w, StartAuditLogRotation(pg, StartLogStreamRotation(pg, x1)),
                        x1.currentFilter)
       ELSE SetPrompt(pg, ApplyFilter(pg, w, x1, x1.currentFilter), "chatbot")

LoadFailureLog(w) ==
  IF w = "showcase" THEN "Backend showcase data failed to load"
  ELSE "Platform lab data failed to load"

\* script.js:536-568  BackendShowcase.init() and 718-744 PlatformLab.init()
\* resume after their await.
FilterWidgetResumes(w) ==
  /\ pagePc \in Finished
  /\ w \in FilterWidgets
  /\ phase[w] = "loading"
  /\ \E i \in SettledCallOf(w) :
       LET threw == calls[i].pc = "failed" \/ calls[i].result.body = "null"
       IN /\ fw' = [fw EXCEPT ![w] = IF threw THEN AfterTry(page, w, @)
                                     ELSE AfterTry(page, w, WithData(w, @, calls[i].result.body))]
          /\ console' = IF threw THEN console \cup {LoadFailureLog(w)} ELSE console
          /\ phase' = [phase EXCEPT ![w] = IF threw THEN "failed" ELSE "ready"]
  /\ event' = [op |-> "resume", arg |-> w]
  /\ UNCHANGED <<hostVars, loaderVars, pagePc, unhandled, dash, lib, live, nav, reveal>>

\* script.js:863-873  LearningLibrary.init() of section sec resumes: the
\* items are filtered and rendered and the controls bound; a failed load, or
\* loaded data that is no array, is logged and the grid shows the message
\* 'Unable to load library data.'
LibraryResumes(sec) ==
  /\ pagePc \in Finished
  /\ sec \in 1..Len(page.lib)
  /\ phase[LibName(sec)] = "loading"
  /\ \E i \in SettledCallOf(LibName(sec)) :
       IF calls[i].pc = "done" /\ IsArray(calls[i].result.body)
         THEN /\ lib' = [lib EXCEPT ![sec] =
                           [ApplyFilters(page, sec, [@ EXCEPT !.items = ItemsOf(calls[i].result.body)])
                              EXCEPT !.bound = TRUE]]
              /\ phase' = [phase EXCEPT ![LibName(sec)] = "ready"]
              /\ UNCHANGED console
         ELSE /\ lib' = [lib EXCEPT ![sec] = [@ EXCEPT !.gridKind = "error", !.gridCards = <<>>]]
              /\ phase' = [phase EXCEPT ![LibName(sec)] = "failed"]
              /\ console' = console \cup {"Learning library failed to load"}
  /\ event' = [op |-> "resume", arg |-> LibName(sec)]
  /\ UNCHANGED <<hostVars, loaderVars, pagePc, unhandled, dash, fw, live, nav, reveal>>

Resumes ==
  \/ DashboardResumes
  \/ \E w \in FilterWidgets : FilterWidgetResumes(w)
  \/ \E sec \in 1..2 : LibraryResumes(sec)

\* ------------------------------------------------------------------------
\* Pages: the markup the script finds and the host it runs on
\* ------------------------------------------------------------------------

NoFilterMarkup ==
  [buttons |-> <<>>, marked |-> 0, cards |-> <<>>, kpiNodes |-> {}, kpiOrder |-> <<>>,
   chips |-> <<>>, hasSummary |-> FALSE, hasDeliverables |-> FALSE, hasPipeline |-> FALSE,
   hasLog |-> FALSE, hasAudit |-> FALSE, hasPromptTitle |-> FALSE,
   pipelineSteps |-> <<>>, hasPipelineStatus |-> FALSE,
   hasRetryButton |-> FALSE, hasRetryStatus |-> FALSE]

\* A page with none of the widgets' markers.  listHasFind: whether the list
\* querySelectorAll returns has a find method (a NodeList has none; a host
\* that extends NodeList with the Array methods has).
BarePage ==
  [script |-> "assets", listHasFind |-> FALSE, nav |-> FALSE, hasIO |-> TRUE,
   localhost |-> FALSE,
   navItems |-> 0, navAria |-> "false", closedMenuFocusable |-> FALSE,
   dashSection |-> FALSE, dashButtons |-> <<>>, dashMarked |-> 0,
   valueNodes |-> {}, captionNodes |-> {}, metricKeyNodes |-> TRUE, metricOrder |-> <<>>,
   metricCards |-> 0, animatable |-> 0,
   fw |-> [w \in FilterWidgets |-> NoFilterMarkup],
   lib |-> <<>>]

\* The dashboard section: three view buttons, value and caption nodes for
\* two metrics, two cards; `marked` is the button the markup marks active
\* (0: none).
WithDashboard(pg, marked) ==
  [pg EXCEPT !.dashSection = TRUE,
             !.dashButtons = <<"monthly", "quarterly", "yearly">>, !.dashMarked = marked,
             !.valueNodes = {"totalReports", "timeSaved"},
             !.captionNodes = {"totalReports", "timeSaved"},
             !.metricOrder = <<"totalReports", "timeSaved">>,
             !.metricCards = 2]

\* The backend showcase: filter buttons (one for a filter the fixture does
\* not record), tagged cards, summary, two KPI nodes, log and audit panels.
WithShowcase(pg, marked) ==
  [pg EXCEPT !.fw["showcase"] =
     [NoFilterMarkup EXCEPT !.buttons = <<"all", "backend", "frontend">>, !.marked = marked,
                            !.cards = << <<"backend", " security">>, <<"security">> >>,
                            !.kpiNodes = {"services", "latency"},
                            !.kpiOrder = <<"services", "latency">>,
                            !.hasSummary = TRUE, !.hasLog = TRUE, !.hasAudit = TRUE]]

\* The platform lab: filter buttons (one for a filter the fixture does not
\* record), tagged cards, summary and deliverables, one KPI node, prompt chips.
WithLab(pg, marked) ==
  [pg EXCEPT !.fw["lab"] =
     [NoFilterMarkup EXCEPT !.buttons = <<"all", "backend", "data", "devops", "ai">>, !.marked = marked,
                            !.cards = << <<"backend ", " data ">>, <<"devops">> >>,
                            !.kpiNodes = {"deliverables"}, !.kpiOrder = <<"deliverables">>,
                            !.chips = <<"chatbot", "dashboard">>,
                            !.hasSummary = TRUE, !.hasDeliverables = TRUE,
                            !.hasPipeline = TRUE, !.hasPromptTitle = TRUE,
                            !.pipelineSteps = <<"Build", "Test", "Deploy">>,
                            !.hasPipelineStatus = TRUE]]

\* Library sections: every control present.
LibrarySection(track) ==
  [track |-> track, source |-> LibraryUrl, hasGrid |-> TRUE, hasSearch |-> TRUE,
   hasLevel |-> TRUE, hasCount |-> TRUE, hasMore |-> TRUE]
WithLibrary(pg, tracks) ==
  [pg EXCEPT !.lib = [j \in 1..Len(tracks) |-> LibrarySection(tracks[j])]]

\* The widgets before init() has run.
Unbuilt ==
  /\ dash = DashMarkup(page)
  /\ fw = [w \in FilterWidgets |-> FilterMarkup(page, w)]
  /\ lib = [sec \in 1..Len(page.lib) |-> LibraryMarkup(page, sec)]
  /\ live = NoLiveRegion
  /\ nav = NavMarkup(page)
  /\ reveal = RevealMarkup(page)

\* The script is about to run init().
ScriptStarts ==
  /\ jsonCache = [u \in Urls |-> NoEntry]
  /\ calls = <<>>
  /\ fetchCount = [u \in Urls |-> 0]
  /\ pagePc = Steps[1]
  /\ phase = [w \in Widgets |-> "pending"]
  /\ console = {}
  /\ unhandled = {}
  /\ Unbuilt
  /\ event = [op |-> "load", arg |-> ""]

\* ------------------------------------------------------------------------
\* The loader on its own: any code of the page calling loadJsonData.
\* ------------------------------------------------------------------------

\* script.js:60-76  a page whose own code calls loadJsonData; it has none of
\* the widgets, so init() starts no load.
BlankPage == BarePage

LoaderBodies == {"{}", "null", "0", MalformedBody}

CallerLoads ==
  /\ Idle
  /\ Len(calls) < MaxCalls
  /\ \E source \in {"", DashUrl, LabUrl} :
       /\ LoadJsonData("caller", source)
       /\ event' = [op |-> "load", arg |-> source]
  /\ UNCHANGED <<hostVars, initVars, widgetVars>>

NetworkAnswers ==
  /\ Idle
  /\ \E i \in 1..Len(calls), outcome \in FetchOutcomes :
       /\ FetchSettles(i, outcome)
       /\ event' = [op |-> "fetchSettles", arg |-> outcome]
  /\ UNCHANGED <<hostVars, initVars, widgetVars>>

BodyParsed ==
  /\ Idle
  /\ \E i \in 1..Len(calls) :
       /\ JsonSettles(i)
       /\ event' = [op |-> "jsonSettles", arg |-> calls[i].url]
  /\ UNCHANGED <<hostVars, initVars, widgetVars>>

InitLoader ==
  /\ page = BlankPage
  /\ served \in [Urls -> LoaderBodies]
  /\ served[ShowcaseUrl] = "{}" /\ served[LibraryUrl] = "{}"
  /\ jsonCache = [u \in Urls |-> NoEntry]
  /\ calls = <<>>
  /\ fetchCount = [u \in Urls |-> 0]
  /\ pagePc = "done"
  /\ phase = [w \in Widgets |-> "inert"]
  /\ console = {}
  /\ unhandled = {}
  /\ Unbuilt
  /\ event = [op |-> "init", arg |-> "perf"]

NextLoader == CallerLoads \/ NetworkAnswers \/ BodyParsed

SpecLoader == InitLoader /\ [][NextLoader]_vars

\* ------------------------------------------------------------------------
\* The page from its load: init(), the answers of the network and the
\* widgets' asynchronous set-up
\* ------------------------------------------------------------------------

\* script.js:523-530, 704-711, 860-861  pages with part of a widget's markup:
\* a showcase with its log and audit lists only, a lab with its pipeline
\* only and a library section without grid; a showcase with KPI nodes only
\* and a lab with summary and deliverables only.
MarkerPages ==
  {[BarePage EXCEPT
      !.fw["showcase"] = [NoFilterMarkup EXCEPT !.hasLog = TRUE, !.hasAudit = TRUE],
      !.fw["lab"] = [NoFilterMarkup EXCEPT !.hasPipeline = TRUE,
                                           !.pipelineSteps = <<"Build", "Test">>,
                                           !.hasPipelineStatus = TRUE],
      !.lib = <<[LibrarySection("sql") EXCEPT !.hasGrid = FALSE]>>],
   [BarePage EXCEPT
      !.script = "inline",
      !.fw["showcase"] = [NoFilterMarkup EXCEPT !.kpiNodes = {"services"},
                                                !.kpiOrder = <<"services">>],
      !.fw["lab"] = [NoFilterMarkup EXCEPT !.hasSummary = TRUE, !.hasDeliverables = TRUE]]}

\* A page with every widget, served by either script on either host, and a
\* page with the library alone.
FullPage == WithLibrary(WithLab(WithShowcase(WithDashboard(BarePage, 1), 1), 2), <<"sql", "">>)
Pages ==
  {[FullPage EXCEPT !.script = sc, !.listHasFind = f, !.nav = TRUE] :
     sc \in {"assets", "inline"}, f \in BOOLEAN}
  \cup {WithLibrary([BarePage EXCEPT !.hasIO = FALSE, !.localhost = TRUE], <<"sql", "api">>)}
  \cup MarkerPages

\* What the static files hold.
PageFixtures ==
  {f \in [Urls -> {"dash-full", "null", "showcase", "lab", "library", "{}", MalformedBody}] :
     /\ f[DashUrl] \in {"dash-full", "null"}
     /\ f[ShowcaseUrl] \in {"showcase", "null"}
     /\ f[LabUrl] \in {"lab", MalformedBody}
     /\ f[LibraryUrl] \in {"library", "{}"}}

InitPage ==
  /\ page \in Pages
  /\ served \in PageFixtures
  /\ ScriptStarts

NextPage == InitSteps \/ NetworkAnswers \/ BodyParsed \/ Resumes

SpecPage == InitPage /\ [][NextPage]_vars

\* ------------------------------------------------------------------------
\* One widget from the page's load on: init(), its load, then the user's
\* selections, searches and clicks and the timers they set
\* ------------------------------------------------------------------------

\* Pages with one selector widget each; the markup marks one button active,
\* or none.
SelectPages ==
  {[WithDashboard(BarePage, marked) EXCEPT !.listHasFind = f] :
     marked \in {0, 2}, f \in BOOLEAN}
  \cup {WithShowcase(BarePage, marked) : marked \in {0, 1}}
  \cup {[WithShowcase(BarePage, 1) EXCEPT !.script = "inline"]}
  \cup {WithLab(BarePage, marked) : marked \in {0, 3}}
  \cup {WithLibrary(BarePage, <<"sql">>)}

\* What the static files hold: the file a widget of the page loads has one
\* of the bodies the widget is followed with; the files nothing loads do not
\* matter.
SelectFixtures(pg) ==
  {f \in [Urls -> {"dash-full", "dash-partial", "showcase", "lab", "lab-all", "library",
                   "library-large", "{}"}] :
     /\ f[DashUrl] \in IF pg.dashSection THEN {"dash-full", "dash-partial"} ELSE {"{}"}
     /\ f[ShowcaseUrl] \in IF HasMarkers(pg, "showcase") /\ pg.script = "assets"
                             THEN {"showcase", "{}"} ELSE {"{}"}
     /\ f[LabUrl] \in IF HasMarkers(pg, "lab") THEN {"lab", "lab-all"} ELSE {"{}"}
     /\ f[LibraryUrl] \in IF pg.lib # <<>> THEN {"library", "library-large"} ELSE {"{}"}}

InitSelect ==
  /\ page \in SelectPages
  /\ served \in SelectFixtures(page)
  /\ ScriptStarts

NextSelect ==
  \/ InitSteps
  \/ NetworkAnswers
  \/ BodyParsed
  \/ DashboardResumes
  \/ \E w \in FilterWidgets : FilterWidgetResumes(w)
  \/ \E i \in 1..Len(page.dashButtons) : ClickViewButton(i)
  \/ \E w \in FilterWidgets : \E i \in 1..Len(page.fw[w].buttons) : ClickFilterButton(w, i)
  \/ SwapFires
  \/ AnimationFires
  \/ PulseFires
  \/ ClearFires
  \/ \E w \in FilterWidgets : KpiPulseFires(w)
  \/ LogStreamTick
  \/ AuditLogTick
  \/ PipelineClick
  \/ \E r \in 1..Len(fw["lab"].runs) : PipelineTick(r)
  \/ \E i \in 1..Len(page.fw["lab"].chips) : PromptChipClick(i)
  \/ \E sec \in 1..2 : LibraryResumes(sec)
  \/ \E sec \in 1..2 : \E text \in SearchTexts : LibraryInput(sec, text)
  \/ \E sec \in 1..2 : LibraryDebounceFires(sec)
  \/ \E sec \in 1..2 : \E level \in LevelOptions : LibraryLevelChange(sec, level)
  \/ \E sec \in 1..2 : LibraryLoadMore(sec)

SpecSelect == InitSelect /\ [][NextSelect]_vars

\* ------------------------------------------------------------------------
\* The retry simulation of the showcase
\* ------------------------------------------------------------------------

\* The inline showcase with a retry button, with and without the status
\* element.
RetryPages ==
  {[WithShowcase(BarePage, 1) EXCEPT !.script = "inline",
                                     !.fw["showcase"].hasLog = FALSE,
                                     !.fw["showcase"].hasAudit = FALSE,
                                     !.fw["showcase"].hasRetryButton = TRUE,
                                     !.fw["showcase"].hasRetryStatus = st] : st \in BOOLEAN}

InitRetry ==
  /\ page \in RetryPages
  /\ served = [u \in Urls |-> "{}"]
  /\ ScriptStarts

NextRetry == InitSteps \/ RetryClick \/ RetryTick

SpecRetry == InitRetry /\ [][NextRetry]_vars

\* ------------------------------------------------------------------------
\* The navigation from the page's load on: init(), then the user's clicks
\* and key presses and the timers they set
\* ------------------------------------------------------------------------

\* Pages with the navigation alone: a menu of no, one or three links; the
\* toggle's aria-expanded attribute 'false' or absent in the markup; a
\* stylesheet under which the items of the closed menu can or cannot take
\* focus.
NavPages ==
  {[BarePage EXCEPT !.nav = TRUE, !.navItems = k, !.navAria = a, !.closedMenuFocusable = c] :
     k \in {0, 1, 3}, a \in {"false", Undefined}, c \in BOOLEAN}

InitNavigation ==
  /\ page \in NavPages
  /\ served = [u \in Urls |-> "{}"]
  /\ ScriptStarts

NextNavigation ==
  \/ InitSteps
  \/ NavToggleClick
  \/ \E i \in 1..page.navItems : NavLinkClick(i)
  \/ NavEscape
  \/ \E shiftKey \in BOOLEAN : NavTab(shiftKey)
  \/ NavFocusTimerFires
  \/ ClearFires

SpecNavigation == InitNavigation /\ [][NextNavigation]_vars

\* ------------------------------------------------------------------------
\* The learning library from the page's load on: init(), the load of the
\* catalog, then the user's searches, level choices and 'load more' clicks
\* ------------------------------------------------------------------------

\* Pages with library sections alone: one section with every control, or
\* two tracks, the second without search field and level select.
LibraryPages ==
  {WithLibrary(BarePage, <<"api">>),
   [BarePage EXCEPT !.lib = << LibrarySection("sql"),
                               [LibrarySection("api") EXCEPT !.hasSearch = FALSE,
                                                               !.hasLevel = FALSE] >>]}

LibraryFixtures ==
  {f \in [Urls -> {"library", "library-large", "{}"}] :
     /\ f[LibraryUrl] \in {"library", "library-large"}
     /\ \A u \in Urls \ {LibraryUrl} : f[u] = "{}"}

InitLibraryPage ==
  /\ page \in LibraryPages
  /\ served \in LibraryFixtures
  /\ ScriptStarts

NextLibrary ==
  \/ InitSteps
  \/ NetworkAnswers
  \/ BodyParsed
  \/ \E sec \in 1..2 : LibraryResumes(sec)
  \/ \E sec \in 1..2 : \E text \in SearchTexts : LibraryInput(sec, text)
  \/ \E sec \in 1..2 : LibraryDebounceFires(sec)
  \/ \E sec \in 1..2 : \E level \in LevelOptions : LibraryLevelChange(sec, level)
  \/ \E sec \in 1..2 : LibraryLoadMore(sec)

SpecLibrary == InitLibraryPage /\ [][NextLibrary]_vars

\* ------------------------------------------------------------------------
\* The scroll reveal from the page's load on, beside a dashboard: init(),
\* the observer's reports, the user's selections and their timers
\* ------------------------------------------------------------------------

\* Pages with a small dashboard (two views, one metric, one card, its data
\* inline) and two animatable elements in a browser with
\* IntersectionObserver, or one in a browser without.
ScrollPages ==
  {[WithDashboard(BarePage, 1) EXCEPT !.script = "inline", !.listHasFind = TRUE,
                                      !.dashButtons = <<"monthly", "quarterly">>,
                                      !.valueNodes = {"totalReports"},
                                      !.captionNodes = {"totalReports"},
                                      !.metricOrder = <<"totalReports">>,
                                      !.metricCards = 1,
                                      !.animatable = k, !.hasIO = (k = 2)] :
     k \in {1, 2}}

InitScrollPage ==
  /\ page \in ScrollPages
  /\ served = [u \in Urls |-> "{}"]
  /\ ScriptStarts

NextScroll ==
  \/ InitSteps
  \/ ObserverReports
  \/ \E i \in 1..Len(page.dashButtons) : ClickViewButton(i)
  \/ SwapFires
  \/ AnimationFires
  \/ PulseFires
  \/ ClearFires

SpecScroll == InitScrollPage /\ [][NextScroll]_vars

\* ------------------------------------------------------------------------
\* Claims about the fixture loader
\* ------------------------------------------------------------------------

CallsOf(u) == {i \in 1..Len(calls) : calls[i].url = u}
Fetchers(u) == {i \in CallsOf(u) : calls[i].fetched}

C6_NoDeduplication ==
  \A u \in Urls :
    /\ \A i \in CallsOf(u) : calls[i].overlap /\ ~calls[i].afterLoad => calls[i].fetched
    /\ \A i \in Loaded(u) : calls[i].result = [body |-> served[u], obj |-> i]
    /\ \A i \in Loaded(u) :
         (\A j \in Loaded(u) : calls[j].order <= calls[i].order) => jsonCache[u] = calls[i].result

\* C6 witness: two overlapping calls for one URL both fetched and both
\* returned, the one that started first completing last.
C6_Witness ==
  \E u \in Urls : \E i, j \in Loaded(u) :
    /\ i < j /\ calls[j].overlap /\ calls[i].order > calls[j].order
    /\ jsonCache[u] = calls[i].result /\ calls[i].result # calls[j].result

\* C7 (as claimed): a call that starts after an earlier load of the same URL
\* completed successfully performs no fetch and returns the content that load
\* cached, whatever the parsed content is.
C7_LaterCallServedFromCache ==
  \A u \in Urls : \A i \in CallsOf(u) :
    calls[i].afterLoad =>
      /\ ~calls[i].fetched
      /\ calls[i].pc = "done"
      /\ \E j \in Loaded(u) : j < i /\ calls[i].result = calls[j].result

\* C8: a response whose status is not successful, and an empty source, make
\* the call fail with an error and store nothing: while every load of a URL
\* has failed the cache has no entry for it, and a call that starts after a
\* failure and before any completed load fetches again.
C8_FailureLeavesCacheAlone ==
  /\ \A i \in 1..Len(calls) :
       (calls[i].status = "status" \/ calls[i].url = "") =>
         calls[i].pc = "failed" /\ calls[i].error # "" /\ calls[i].result = NoEntry
  /\ \A i \in 1..Len(calls) : calls[i].url = "" => ~calls[i].fetched
  /\ \A u \in Urls :
       /\ Loaded(u) = {} => jsonCache[u] = NoEntry
       /\ \A i \in CallsOf(u) : calls[i].afterFail /\ ~calls[i].afterLoad => calls[i].fetched

\* C8 witness: a call failed on its response status, and a later call for the
\* same URL fetched again; a call with the empty source failed too.
C8_Witness ==
  /\ \E i \in 1..Len(calls) : calls[i].url = "" /\ calls[i].pc = "failed"
  /\ \E u \in Urls : \E i, j \in CallsOf(u) :
       /\ i < j /\ calls[i].status = "status" /\ calls[i].pc = "failed"
       /\ calls[j].afterFail /\ calls[j].fetched /\ jsonCache[u] = NoEntry

\* ------------------------------------------------------------------------
\* Claims about page initialization and failed loads
\* ------------------------------------------------------------------------

\* The widgets init() sets up on this page, in init order.
OnPage(w) == w # "lib2" \/ Len(page.lib) >= 2
Later(w) == {v \in Widgets : StepIndex(v) > StepIndex(w) /\ OnPage(v)}

\* C9: when init() has returned, a widget whose set-up threw has not kept any
\* widget after it in the init sequence from being initialized.
C9_FailureNeverPreventsLaterWidgets ==
  pagePc \in Finished =>
    \A w \in Widgets : phase[w] = "threw" => \A v \in Later(w) : phase[v] # "pending"

\* The widgets that load a fixture.
Loading == {"dashboard", "showcase", "lab", "lib1", "lib2"}
SecOf(w) == IF w = "lib1" THEN 1 ELSE 2
\* The load of widget w failed (the network, the status or the parse) and
\* the widget has run its handling of it.
LoadFailed(w) ==
  /\ phase[w] = "failed"
  /\ \E i \in SettledCallOf(w) : calls[i].pc = "failed"

LoadFailureLogged(w) ==
  CASE w = "dashboard"         -> "Unable to load dashboard metrics data" \in console
    [] w \in FilterWidgets     -> LoadFailureLog(w) \in console
    [] OTHER                   -> "Learning library failed to load" \in console

\* The widget shows a message in place of its data: some text of its part of
\* the page is no longer the markup's.
MessageShown(w) ==
  CASE w = "dashboard" ->
         \/ dash.valueText # DashMarkup(page).valueText
         \/ dash.captionText # DashMarkup(page).captionText
    [] w \in FilterWidgets ->
         \/ fw[w].summary # MarkupText
         \/ fw[w].deliverables # <<MarkupText>>
         \/ fw[w].kpiValue # FilterMarkup(page, w).kpiValue
         \/ fw[w].kpiChange # FilterMarkup(page, w).kpiChange
         \/ fw[w].logText # <<MarkupText>>
         \/ fw[w].auditText # <<MarkupText>>
         \/ fw[w].promptTitle # MarkupText
    [] OTHER -> lib[SecOf(w)].gridKind = "error"

\* C10: a widget whose fixture load failed has logged the error, shows a
\* message in place of its data and has made no second fetch of the fixture,
\* and no exception has escaped.
C10_LoadFailureHandled ==
  \A w \in Loading :
    LoadFailed(w) =>
      /\ LoadFailureLogged(w)
      /\ MessageShown(w)
      /\ Cardinality({i \in 1..Len(calls) : calls[i].owner = w /\ calls[i].fetched}) <= 1
      /\ unhandled = {}

\* ------------------------------------------------------------------------
\* Claims about the selector widgets
\* ------------------------------------------------------------------------

\* C1: a selection of a key without an entry (a click handler calling
\* setView with a view the section's dataset lacks, or applyFilter with a
\* filter that has no KPI entry) leaves the widget as it was: the active key,
\* every value and caption text, every button's class and aria-pressed, every
\* card's display, the summary, the pending timers and the live region.
C1_InvalidSelectionIsNoOp ==
  [][/\ (event'.op = "setView" /\ event'.arg \notin DOMAIN dash.dataSet)
          => UNCHANGED <<dash, live>>
     /\ (event'.op = "applyFilter" /\ event'.arg \notin DOMAIN fw[event'.widget].kpiValues)
          => UNCHANGED <<fw, live>>]_vars

\* A view absent from the dataset was selected while another view was shown.
C1_Witness ==
  /\ event.op = "setView"
  /\ event.arg \notin DOMAIN dash.dataSet
  /\ dash.currentView \in DOMAIN dash.dataSet
  /\ "Invalid view" \in console

\* The same for a filter widget: a filter without KPI entry was selected
\* while the fixture's data was shown.
C1_WitnessFilter ==
  /\ event.op = "applyFilter"
  /\ event.arg \notin DOMAIN fw[event.widget].kpiValues
  /\ fw[event.widget].currentFilter \in DOMAIN fw[event.widget].kpiValues

\* The buttons of a selector that carry the active indicator.
ActiveButtons(active, pressed) == {i \in DOMAIN active : active[i] /\ pressed[i] = "true"}

\* The set-up of the selector widget has run (to its end, or to the
\* exception that ended it).
DashboardInitialized == phase["dashboard"] \in {"ready", "threw"}
FilterInitialized(w) == phase[w] \in {"ready", "failed"}

\* C2: once a selector widget's initialization has run, exactly one of its
\* buttons carries the active indicator.
C2_ExactlyOneActiveButton ==
  /\ DashboardInitialized /\ Len(page.dashButtons) > 0
       => Cardinality(ActiveButtons(dash.btnActive, dash.btnPressed)) = 1
  /\ \A w \in FilterWidgets :
       FilterInitialized(w) /\ Len(page.fw[w].buttons) > 0
         => Cardinality(ActiveButtons(fw[w].btnActive, fw[w].btnPressed)) = 1

\* The widget object exists (its constructor has run past its early return).
DashboardConstructed == phase["dashboard"] \in {"ready", "threw"}
FilterConstructed(w) == phase[w] \in {"loading", "ready", "failed"}

\* C3: the active key of every constructed widget has an entry in the
\* widget's dataset.
C3_ActiveKeyHasEntry ==
  /\ DashboardConstructed => dash.currentView \in DOMAIN dash.dataSet
  /\ \A w \in FilterWidgets :
       FilterConstructed(w) => fw[w].currentFilter \in DOMAIN fw[w].kpiValues

C11_TwoStateMenu ==
  [][/\ (~nav.open /\ event'.op = "navToggle") => nav'.open
     /\ (~nav.open /\ event'.op \in {"navEscape", "navLink", "navTab"}) => ~nav'.open
     /\ (nav.open /\ event'.op \in {"navLink", "navEscape", "navToggle"}) => ~nav'.open]_vars

\* The open menu was closed by a click on one of its links.
C11_Witness ==
  /\ event.op = "navLink"
  /\ ~nav.open
  /\ live.text = "Navigation menu closed"

\* C12: once the navigation's handlers are set up, after every handler the
\* menu has class 'open' exactly when aria-expanded is 'true' and exactly
\* when the body's overflow is 'hidden'.
C12_IndicatorsAgree ==
  phase["nav"] = "ready" =>
    /\ nav.open <=> nav.ariaExpanded = "true"
    /\ nav.open <=> nav.overflow = "hidden"

\* The menu is open, with all three indicators set by the toggle.
C12_Witness ==
  /\ event.op = "navToggle"
  /\ nav.open
  /\ nav.ariaExpanded = "true"
  /\ nav.overflow = "hidden"

\* C13: from an Escape press that closed the menu until the next user
\* event, keyboard focus is on the toggle button.
C13_FocusStaysOnToggle == nav.lastUser = "escapeClosed" => nav.focus = "toggle"

\* C14: while the menu is open and focus is on one of its focusable
\* elements, a Tab or Shift+Tab press leaves focus on one of them: Tab on the
\* last moves it to the first, Shift+Tab on the first to the last.
C14_FocusTrapped ==
  [][(event'.op = "navTab" /\ nav.open /\ IsItem(page, nav.focus)) =>
       /\ IsItem(page, nav'.focus)
       /\ (event'.arg = "" /\ nav.focus = FocusableElements(page)[page.navItems])
            => nav'.focus = FocusableElements(page)[1]
       /\ (event'.arg = "shift" /\ nav.focus = FocusableElements(page)[1])
            => nav'.focus = FocusableElements(page)[page.navItems]]_vars

\* In the open menu of three links, Tab on the last link moved focus to the
\* first.
C14_Witness ==
  /\ event.op = "navTab"
  /\ event.arg = ""
  /\ event.from = "item3"
  /\ nav.open
  /\ nav.focus = "item1"

\* ------------------------------------------------------------------------
\* Claims about card filtering
\* ------------------------------------------------------------------------

\* Filter f has been applied in widget w: its init() has run and the last
\* accepted applyFilter was for the current filter.
FilterApplied(w) == phase[w] = "ready" /\ fw[w].currentFilter \in DOMAIN fw[w].kpiValues

\* The cards of widget w that are shown, and those whose trimmed tag list
\* contains f.
VisibleCards(w) == {c \in 1..Len(page.fw[w].cards) : fw[w].cardDisplay[c] = ""}
Matching(w, f) == {c \in 1..Len(page.fw[w].cards) : f \in TagsOf(page.fw[w].cards[c])}

\* C15: after filter f is applied in a card-filter widget, a card is shown
\* exactly if f is "all" or the card's trimmed tag list contains f.
C15_CardsShownByTag ==
  \A w \in FilterWidgets :
    FilterApplied(w) =>
      \A c \in 1..Len(page.fw[w].cards) :
        fw[w].cardDisplay[c] = ""
          <=> (fw[w].currentFilter = "all" \/ c \in Matching(w, fw[w].currentFilter))

\* C16: after a tag t matching N of the M cards is applied exactly N cards
\* are visible and M-N hidden, and after "all" is applied all M are visible,
\* whatever was applied before.
C16_CountsAndReversible ==
  \A w \in FilterWidgets :
    FilterApplied(w) =>
      LET f == fw[w].currentFilter
          M == Len(page.fw[w].cards)
          N == Cardinality(Matching(w, f))
      IN IF f = "all" THEN Cardinality(VisibleCards(w)) = M
         ELSE /\ Cardinality(VisibleCards(w)) = N
              /\ M - Cardinality(VisibleCards(w)) = M - N

\* ------------------------------------------------------------------------
\* Claims about the rotating log and audit panels
\* ------------------------------------------------------------------------

\* The buffer rotated left by r places: place j holds the line that was r
\* places further on, wrapping at the end.
RotatedLeft(buffer, r) ==
  [j \in 1..Len(buffer) |-> buffer[((j - 1 + r) % Len(buffer)) + 1]]

\* The text has been written by the script: at once when the rotation starts
\* (script.js), or by the first tick (src/script.js, part_001).
LogWritten == fw["showcase"].logTimer /\ (page.script = "assets" \/ fw["showcase"].logTicks > 0)
AuditWritten == fw["showcase"].auditTimer /\ (page.script = "assets" \/ fw["showcase"].auditTicks > 0)

\* C17: after T ticks of a rotation timer over a buffer of K lines the panel
\* shows the buffer rotated left by T mod K, newline-joined and nothing else
\* (so after K ticks the original order).
C17_RotatedByTicks ==
  LET x == fw["showcase"]
  IN /\ LogWritten =>
          x.logText = Join(RotatedLeft(x.logMessages, x.logTicks % Len(x.logMessages)))
     /\ AuditWritten =>
          x.auditText = Join(RotatedLeft(x.auditEntries, x.auditTicks % Len(x.auditEntries)))

\* The log stream of three lines has ticked three times and shows the
\* original order again; the audit log of two lines has ticked three times
\* and shows its second line first.
C17_Witness ==
  LET x == fw["showcase"]
  IN /\ x.logTimer /\ x.logTicks = Len(x.logMessages) /\ Len(x.logMessages) = 3
     /\ x.logText = Join(x.logMessages)
     /\ x.auditTimer /\ x.auditTicks = 3 /\ Len(x.auditEntries) = 2
     /\ x.auditText = <<x.auditEntries[2], "\n", x.auditEntries[1]>>

\* ------------------------------------------------------------------------
\* Claims about the pipeline animation
\* ------------------------------------------------------------------------

\* The pipeline runs whose interval still ticks.
LiveRuns == {r \in 1..Len(fw["lab"].runs) : fw["lab"].runs[r].live}

\* C18: at most one pipeline interval is active at any time, it is the one
\* of the latest run, and every tick that fires is a tick of the latest run:
\* none of an earlier run fires after a re-trigger.
C18_OnePipelineTimer ==
  /\ [](Cardinality(LiveRuns) <= 1 /\ \A r \in LiveRuns : r = Len(fw["lab"].runs))
  /\ [][event'.op = "pipelineTick" => event'.arg = Len(fw["lab"].runs)]_vars

\* A run was re-triggered after its first tick, before it completed; the
\* earlier run has ticked no more while the new one has completed.
C18_Witness ==
  LET x == fw["lab"]
  IN /\ Len(x.runs) = 2
     /\ x.runs[1].ticks = 1
     /\ ~x.runs[1].live
     /\ x.runs[2].ticks = Len(page.fw["lab"].pipelineSteps) + 1

\* C19: a run over N steps that has not been re-triggered has, after its
\* t-th tick (1 <= t <= N), exactly step t active and 'Running: ' with that
\* step's label in the status line; after tick N+1 no step is active, the
\* status is the completion message and the interval is cancelled; it never
\* ticks more than N+1 times.
C19_PipelineWalk ==
  LET x == fw["lab"]
      N == Len(page.fw["lab"].pipelineSteps)
  IN x.runs # <<>> =>
       LET run    == x.runs[Len(x.runs)]
           active == {j \in 1..N : x.stepActive[j]}
       IN /\ run.ticks <= N + 1
          /\ run.live <=> run.ticks <= N
          /\ run.ticks = 0 => active = {} /\ x.pipelineStatus = <<"Pipeline started...">>
          /\ run.ticks \in 1..N =>
               active = {run.ticks}
               /\ x.pipelineStatus = <<"Running: ", page.fw["lab"].pipelineSteps[run.ticks]>>
          /\ run.ticks = N + 1 =>
               active = {} /\ x.pipelineStatus = <<"Pipeline complete. Release ready.">>

\* A single run over three steps has completed with its fourth tick.
C19_Witness ==
  LET x == fw["lab"]
  IN /\ Len(x.runs) = 1
     /\ Len(page.fw["lab"].pipelineSteps) = 3
     /\ x.runs[1].ticks = 4
     /\ ~x.runs[1].live
     /\ x.pipelineStatus = <<"Pipeline complete. Release ready.">>
     /\ event.op = "pipelineTick"

\* ------------------------------------------------------------------------
\* Claims about the learning library
\* ------------------------------------------------------------------------

\* The last step ran applyFilters() on section sec: the end of its set-up,
\* the debounce timer of its search field, or a change of its level select.
FiltersApplied(sec) ==
  \/ event.op = "resume" /\ event.arg = LibName(sec) /\ phase[LibName(sec)] = "ready"
  \/ event.op = "libraryDebounce" /\ event.arg = LibName(sec)
  \/ event.op = "libraryLevel" /\ event.arg = LibName(sec) /\ event.applied

\* The query and the level applyFilters() ran with: the field's text trimmed
\* and lower-cased, the select's value; '' and 'all' without the control.
QueryOf(sec) ==
  IF page.lib[sec].hasSearch THEN ToLowerCase(TrimText(lib[sec].searchValue)) ELSE <<>>
LevelOf(sec) == IF page.lib[sec].hasLevel THEN lib[sec].levelValue ELSE "all"

\* An item's title, summary, focus and tags, as written in the catalog.
SearchableText(item) ==
  item.title \o <<" ">> \o item.summary \o <<" ">> \o item.focus \o <<" ">>
  \o JoinSp(IF item.hasTags THEN item.tags ELSE <<>>)
ContainsIgnoringCase(text, q) == Includes(ToLowerCase(text), ToLowerCase(q))

OfTrack(sec) == {j \in 1..Len(lib[sec].items) : lib[sec].items[j].track = page.lib[sec].track}
Matched(sec) ==
  {j \in OfTrack(sec) :
     /\ (LevelOf(sec) = "all" \/ lib[sec].items[j].level = LevelOf(sec))
     /\ (QueryOf(sec) = <<>> \/ ContainsIgnoringCase(SearchableText(lib[sec].items[j]), QueryOf(sec)))}
FilteredSet(sec) == {lib[sec].filteredItems[k] : k \in 1..Len(lib[sec].filteredItems)}

\* C20: after applyFilters() has run with query q (the search text trimmed
\* and lower-cased) and level l, the matched items are exactly the catalog
\* items of the section's track whose level is l (or l is 'all') and whose
\* title, summary, focus and tags contain q whatever the case (or q is
\* empty), each once; with q empty and l 'all' they are every item of the
\* track.
C20_MatchedSet ==
  \A sec \in 1..Len(page.lib) :
    FiltersApplied(sec) =>
      /\ FilteredSet(sec) = Matched(sec)
      /\ Len(lib[sec].filteredItems) = Cardinality(Matched(sec))
      /\ (QueryOf(sec) = <<>> /\ LevelOf(sec) = "all") => FilteredSet(sec) = OfTrack(sec)

\* A search for ' SQ ' at level 'beginner' has kept one of the two items of
\* the track.
C20_Witness ==
  /\ Len(page.lib) = 2
  /\ event.op = "libraryDebounce" /\ event.arg = LibName(1)
  /\ lib[1].searchValue = <<" ", "S", "Q", " ">>
  /\ lib[1].levelValue = "beginner"
  /\ Len(lib[1].items) = Len(Catalog)
  /\ FilteredSet(1) = {1}
  /\ Cardinality(OfTrack(1)) = 2

\* The last step ran render() on section sec: through applyFilters(), or
\* from a click on 'load more'.
Rendered(sec) ==
  \/ FiltersApplied(sec)
  \/ event.op = "libraryMore" /\ event.arg = LibName(sec)

FirstMatches(sec) ==
  SubSeq(lib[sec].filteredItems, 1, Min(lib[sec].visibleCount, Len(lib[sec].filteredItems)))
ShownCards(L) == IF L.gridKind = "cards" THEN {L.gridCards[k] : k \in 1..Len(L.gridCards)} ELSE {}

\* C21: the visible-count window starts at 12; every 'load more' click adds
\* exactly 12 to it; after every render the cards shown are the first
\* min(visibleCount, number of matches) matches in catalog order; a 'load
\* more' click removes no card that was shown before it.
C21_Pagination ==
  /\ [](\A sec \in 1..Len(page.lib) :
          /\ ~lib[sec].bound => lib[sec].visibleCount = PageSize
          /\ Rendered(sec) => lib[sec].gridKind = "cards" /\ lib[sec].gridCards = FirstMatches(sec))
  /\ [][\A sec \in 1..Len(page.lib) :
          (event'.op = "libraryMore" /\ event'.arg = LibName(sec)) =>
            /\ lib'[sec].visibleCount = lib[sec].visibleCount + PageSize
            /\ ShownCards(lib[sec]) \subseteq ShownCards(lib'[sec])]_vars

\* A 'load more' click has added the items past the first page.
C21_Witness ==
  /\ event.op = "libraryMore" /\ event.arg = LibName(1)
  /\ lib[1].visibleCount = PageSize + PageSize
  /\ Len(lib[1].gridCards) > PageSize

\* C22: after every render the 'load more' control is disabled and reads
\* 'All modules loaded' iff the visible-count window is at least the number
\* of matches; otherwise it is enabled and reads 'Load more modules'.
C22_LoadMoreControl ==
  \A sec \in 1..Len(page.lib) :
    (Rendered(sec) /\ page.lib[sec].hasMore) =>
      IF lib[sec].visibleCount >= Len(lib[sec].filteredItems)
        THEN lib[sec].moreDisabled /\ lib[sec].moreLabel = "All modules loaded"
        ELSE ~lib[sec].moreDisabled /\ lib[sec].moreLabel = "Load more modules"

\* A render with the window exactly as long as the matches has disabled the
\* control.
C22_Witness ==
  /\ Rendered(1)
  /\ lib[1].visibleCount = Len(lib[1].filteredItems)
  /\ lib[1].moreDisabled

\* A render with more matches than the window has left it enabled.
C22_WitnessEnabled ==
  /\ Rendered(1)
  /\ lib[1].visibleCount < Len(lib[1].filteredItems)
  /\ ~lib[1].moreDisabled
  /\ lib[1].moreLabel = "Load more modules"

\* C23: after every render the 'no matches' message is shown iff the
\* matched set is empty, and then no card is shown; a query that no item's
\* searchable text contains leaves the matched set empty.
C23_NoMatchesMessage ==
  \A sec \in 1..Len(page.lib) :
    /\ Rendered(sec) =>
         /\ lib[sec].gridEmpty <=> lib[sec].filteredItems = <<>>
         /\ lib[sec].gridEmpty => lib[sec].gridCards = <<>>
    /\ (/\ FiltersApplied(sec)
        /\ QueryOf(sec) # <<>>
        /\ \A j \in 1..Len(lib[sec].items) :
              ~ContainsIgnoringCase(SearchableText(lib[sec].items[j]), QueryOf(sec)))
         => lib[sec].filteredItems = <<>>

\* A search for 'z', which no item holds, shows the message.
C23_Witness ==
  /\ event.op = "libraryDebounce" /\ event.arg = LibName(1)
  /\ lib[1].searchValue = <<"z">>
  /\ lib[1].items # <<>>
  /\ lib[1].gridEmpty

\* C24: the search field's input events are debounced: an input event runs
\* no filter itself; whatever the length of a burst of them, one timer is
\* pending after it, and when the timer fires, the delay after the last
\* event of the burst, applyFilters() runs once, with the text the field
\* holds then, and no timer is left to run it again.
C24_Debounced ==
  /\ [](\A sec \in 1..Len(page.lib) : lib[sec].debounce <= 1)
  /\ [][\A sec \in 1..Len(page.lib) :
          /\ (event'.op = "libraryInput" /\ event'.arg = LibName(sec)) =>
                /\ lib'[sec].filteredItems = lib[sec].filteredItems
                /\ lib'[sec].gridCards = lib[sec].gridCards
                /\ lib[sec].bound => lib'[sec].debounce = 1
          /\ (event'.op = "libraryDebounce" /\ event'.arg = LibName(sec)) =>
                /\ lib'[sec].searchValue = lib[sec].searchValue
                /\ FilteredSet(sec)' = Matched(sec)'
                /\ lib'[sec].debounce = 0]_vars

\* The timer has fired after a burst of three keystrokes, and the matches
\* have changed with it.
C24_Witness ==
  /\ event.op = "libraryDebounce" /\ event.arg = LibName(1)
  /\ event.burst = MaxBurst
  /\ lib[1].debounce = 0
  /\ lib[1].searchValue = <<"z">>
  /\ lib[1].filteredItems = <<>>

\* ------------------------------------------------------------------------
\* Claims about the scroll reveal
\* ------------------------------------------------------------------------

Invisible(e) == reveal.opacity[e] = "0" /\ reveal.transform[e] = "translateY(20px)"
Visible(e) == reveal.opacity[e] = "1" /\ reveal.transform[e] = "translateY(0)"

\* C25: where the scroll reveal runs, every animatable element is invisible
\* (opacity 0, offset) until the observer first reports it intersecting and
\* visible from then on: no later report, intersecting or not, and no step
\* of another widget makes a revealed element invisible again.
C25_RevealIsOneShot ==
  /\ [](phase["scroll"] = "ready" =>
          \A e \in Animatables(page) :
            IF reveal.seen[e] THEN Visible(e) ELSE Invisible(e))
  /\ [][\A e \in Animatables(page) : Visible(e) => Visible(e)']_vars

\* A revealed element has since been reported out of the viewport, after a
\* selection in the dashboard.
C25_Witness ==
  /\ page.animatable = 2
  /\ reveal.seen[1] /\ reveal.intersecting[1] = "out" /\ Visible(1)
  /\ ~reveal.seen[2] /\ reveal.intersecting[2] = "out" /\ Invisible(2)
  /\ dash.currentView = "quarterly"

\* ------------------------------------------------------------------------
\* Claims about the order and the timing of a selection
\* ------------------------------------------------------------------------

\* This step ran setView for a view of the dataset: a click on its button,
\* or the construction of the section.
SetViewRan ==
  \/ event'.op = "setView" /\ event'.arg \in DOMAIN dash.dataSet
  \/ /\ event'.op \in {"init", "resume"} /\ event'.arg = "dashboard"
     /\ phase["dashboard"] # "ready" /\ phase'["dashboard"] = "ready"
     /\ dash'.currentView \in DOMAIN dash'.dataSet

\* C26: a setView call for a valid key runs the metric/caption update, the
\* button update, the animation scheduling and the announcement in this
\* order; when it returns every caption it updates holds the new text while
\* no value node's text has changed; a value node's text changes only when
\* its swap timer fires.
C26_OrderAndDelay ==
  [][/\ SetViewRan =>
          /\ dash'.steps = <<"metrics", "buttons", "animation", "announcement">>
          /\ dash'.valueText = dash.valueText
          /\ LET data == dash'.dataSet[dash'.currentView]
             IN \A n \in page.captionNodes :
                  n \in DOMAIN data => dash'.captionText[n] = data[n].change
     /\ dash'.valueText # dash.valueText => event'.op = "swapFires"]_vars

\* A click has changed a caption and left the value beside it for the timer.
C26_Witness ==
  /\ event.op = "setView" /\ event.arg = "yearly"
  /\ dash.currentView = "yearly"
  /\ "totalReports" \in DOMAIN dash.dataSet["yearly"]
  /\ dash.captionText["totalReports"] = dash.dataSet["yearly"]["totalReports"].change
  /\ dash.valueText["totalReports"] # dash.dataSet["yearly"]["totalReports"].value
  /\ dash.swapQ # <<>>

\* The value texts once the pending swap timers q have fired, in their
\* order.
RECURSIVE Swapped(_, _)
Swapped(valueText, q) ==
  IF q = <<>> THEN valueText
  ELSE Swapped([valueText EXCEPT ![Head(q).node] = Head(q).value], Tail(q))

\* What a selection leaves once all timers have fired: the current key, the
\* value and caption texts and the buttons' states.
Outcome(d) ==
  [currentView |-> d.currentView, valueText |-> Swapped(d.valueText, d.swapQ),
   captionText |-> d.captionText, btnActive |-> d.btnActive, btnPressed |-> d.btnPressed]

\* C27: selecting the valid key that is already selected changes nothing
\* but the animation: once all timers have fired, the current key, every
\* value and caption text and every button's active and aria-pressed state
\* are what they are after the first selection alone.
C27_ReselectionIdempotent ==
  [][(/\ event'.op = "setView"
      /\ event'.arg = dash.currentView
      /\ event'.arg \in DOMAIN dash.dataSet)
       => Outcome(dash') = Outcome(dash)]_vars

\* 'monthly' was selected twice in a row: the swaps of both selections are
\* pending.
C27_Witness ==
  /\ event.op = "setView" /\ event.arg = "monthly"
  /\ dash.currentView = "monthly"
  /\ Len(dash.swapQ) = 4
  /\ dash.swapQ[1] = dash.swapQ[3]
  /\ dash.swapQ[2] = dash.swapQ[4]
  /\ dash.swapQ[1].value = dash.dataSet["monthly"][dash.swapQ[1].node].value

\* C28: a section has at most one card-animation start timeout pending:
\* every selection leaves exactly one, having cancelled the one before it,
\* so however many selections fall within the delay, the timeout that fires
\* starts the pulse sequence once and leaves none to start it again.
C28_OneAnimationTimeout ==
  /\ [](dash.animationPending <= 1)
  /\ [][/\ SetViewRan => dash'.animationPending = 1
        /\ event'.op = "animationFires" =>
              /\ dash.animationPending = 1
              /\ dash'.animationPending = 0
              /\ Len(dash'.pulseQ) = page.metricCards]_vars

\* A selection has come while the start timeout of the one before it was
\* pending.
C28_Witness ==
  /\ event.op = "setView" /\ event.arg \in DOMAIN dash.dataSet
  /\ event.restarted
  /\ dash.animationPending = 1

\* ------------------------------------------------------------------------
\* Claims about the datasets
\* ------------------------------------------------------------------------

\* The data the widgets hold: the view datasets, the KPI values, summaries
\* and prompts, the rotation buffers and the catalog items.
Datasets ==
  [dashboard |-> dash.dataSet,
   showcase  |-> [kpiValues |-> fw["showcase"].kpiValues,
                  summaryText |-> fw["showcase"].summaryText,
                  logMessages |-> fw["showcase"].logMessages,
                  auditEntries |-> fw["showcase"].auditEntries],
   lab       |-> [kpiValues |-> fw["lab"].kpiValues,
                  summaryText |-> fw["lab"].summaryText,
                  promptData |-> fw["lab"].promptData],
   library   |-> [sec \in 1..Len(page.lib) |-> lib[sec].items]]

\* What the fixture files of the page hold, parsed.
AsLoaded ==
  [dashboard |-> DashDataSet(served[DashUrl]),
   showcase  |-> [kpiValues |-> Kpis(served[ShowcaseUrl]),
                  summaryText |-> Summaries(served[ShowcaseUrl]),
                  logMessages |-> LogStreamOf(served[ShowcaseUrl]),
                  auditEntries |-> AuditLogOf(served[ShowcaseUrl])],
   lab       |-> [kpiValues |-> Kpis(served[LabUrl]),
                  summaryText |-> Summaries(served[LabUrl]),
                  promptData |-> Prompts(served[LabUrl])],
   library   |-> [sec \in 1..Len(page.lib) |-> ItemsOf(served[LibraryUrl])]]

\* C29: no selection, filter application, rotation tick, prompt change or
\* catalog render changes a dataset: a widget that was set up with loaded
\* data holds the data of its fixture file in every state, and a dataset
\* changes only in the step of init() that stores it.
C29_DatasetsNeverMutated ==
  /\ [](/\ (phase["dashboard"] = "ready" /\ page.script = "assets")
            => Datasets.dashboard = AsLoaded.dashboard
        /\ \A w \in FilterWidgets :
             (phase[w] = "ready" /\ page.script = "assets") => Datasets[w] = AsLoaded[w]
        /\ \A sec \in 1..Len(page.lib) :
             phase[LibName(sec)] = "ready" => Datasets.library[sec] = AsLoaded.library[sec])
  /\ [][Datasets' # Datasets => event'.op \in {"init", "resume"}]_vars

\* The log stream has rotated twice, a filter been applied and the buffer
\* is the one loaded.
C29_Witness ==
  /\ event.op = "logTick"
  /\ page.script = "assets"
  /\ fw["showcase"].logTicks = 2
  /\ fw["showcase"].currentFilter = "backend"
  /\ fw["showcase"].logMessages = ShowcaseLog
  /\ fw["showcase"].logText # Join(ShowcaseLog)

\* ------------------------------------------------------------------------
\* Claims about the companion summary
\* ------------------------------------------------------------------------

\* Widget w was set up with loaded data and its current filter is one
\* applyFilter accepts.
FilterAccepted(w) ==
  /\ phase[w] = "ready"
  /\ fw[w].listening
  /\ fw[w].currentFilter \in DOMAIN fw[w].kpiValues

\* The summary (and, in the lab, the deliverables list) widget w shows in
\* state x is the one its data records for filter f.
ShowsSummaryOf(pg, w, x, f) ==
  /\ f \in DOMAIN x.summaryText
  /\ IF w = "showcase"
       THEN x.summary = x.summaryText[f]
       ELSE /\ x.summary = x.summaryText[f].summary
            /\ pg.fw[w].hasDeliverables => x.deliverables = x.summaryText[f].deliverables

\* C30: after applyFilter has accepted a filter f, the summary shown (and,
\* in the lab, the deliverables list) is the one recorded for f; in every
\* state, a summary the widget has written is the one recorded for its
\* current filter.
C30_SummaryMatchesFilter ==
  /\ [][\A w \in FilterWidgets :
          (/\ event'.op = "applyFilter" /\ event'.widget = w
           /\ event'.arg \in DOMAIN fw[w].kpiValues
           /\ page.fw[w].hasSummary)
            => ShowsSummaryOf(page, w, fw'[w], event'.arg)]_vars
  /\ [](\A w \in FilterWidgets :
          (FilterAccepted(w) /\ page.fw[w].hasSummary /\ fw[w].summary # MarkupText)
            => ShowsSummaryOf(page, w, fw[w], fw[w].currentFilter))

\* ------------------------------------------------------------------------
\* Widgets without their markup
\* ------------------------------------------------------------------------

\* No loadJsonData call was made by `owner`.
NoCallBy(owner) == \A i \in 1..Len(calls) : calls[i].owner # owner

NavQuiet == ~nav.listening /\ nav.focusQ = 0
DashQuiet ==
  /\ ~dash.listening
  /\ dash.swapQ = <<>> /\ dash.animationPending = 0 /\ dash.pulseQ = <<>>
  /\ NoCallBy("dashboard")
FilterWidgetQuiet(w) ==
  /\ ~fw[w].listening
  /\ ~fw[w].logTimer /\ ~fw[w].auditTimer
  /\ fw[w].kpiPulseQ = <<>> /\ fw[w].runs = <<>> /\ fw[w].pipelineInterval = 0
  /\ NoCallBy(w)
LibraryQuiet(sec) ==
  /\ ~lib[sec].bound /\ lib[sec].debounce = 0
  /\ NoCallBy(LibName(sec))

\* The constructors' marker tests, read off the page.
NoShowcaseMarkers(m) ==
  Len(m.buttons) = 0 /\ Len(m.cards) = 0 /\ ~m.hasSummary /\ m.kpiNodes = {}
NoLabMarkers(m) ==
  Len(m.buttons) = 0 /\ Len(m.cards) = 0 /\ ~m.hasPipeline /\ Len(m.chips) = 0
NoFilterCardSummary(m) ==
  Len(m.buttons) = 0 /\ Len(m.cards) = 0 /\ ~m.hasSummary

\* C31 (as the constructors test it): a widget none of whose markers is on
\* the page registers no listener, starts no timer and issues no fetch:
\* the navigation without toggle or menu, the dashboard without section,
\* the showcase without filter buttons, cards, summary and KPI nodes, the
\* lab without filter buttons, cards, pipeline button and prompt chips, a
\* library section without track or grid.
C31_NoMarkersNoInit ==
  /\ ~page.nav => NavQuiet
  /\ ~page.dashSection => DashQuiet
  /\ NoShowcaseMarkers(page.fw["showcase"]) => FilterWidgetQuiet("showcase")
  /\ NoLabMarkers(page.fw["lab"]) => FilterWidgetQuiet("lab")
  /\ \A sec \in 1..Len(page.lib) :
       (page.lib[sec].track = "" \/ ~page.lib[sec].hasGrid) => LibraryQuiet(sec)

\* init() has passed every widget; the showcase (log and audit lists only)
\* and the library section (no grid) stayed inert beside a lab that started.
C31_Witness ==
  /\ pagePc = "done"
  /\ page.fw["showcase"].hasLog /\ NoShowcaseMarkers(page.fw["showcase"])
  /\ phase["showcase"] = "inert" /\ FilterWidgetQuiet("showcase")
  /\ Len(page.lib) = 1 /\ ~page.lib[1].hasGrid /\ LibraryQuiet(1)
  /\ ~page.nav /\ ~page.dashSection
  /\ ~NoCallBy("lab")

\* C31 as worded: the showcase and the lab stay inert whenever their
\* filter buttons, cards and summary are absent.
C31_FilterCardSummaryMarkers ==
  \A w \in FilterWidgets : NoFilterCardSummary(page.fw[w]) => FilterWidgetQuiet(w)

\* ------------------------------------------------------------------------
\* A browser without IntersectionObserver
\* ------------------------------------------------------------------------

\* C32: where the browser has no IntersectionObserver, ScrollAnimations
\* disables itself without error (init() goes on to its next step, nothing
\* is thrown or logged as an error) and every animatable element keeps the
\* style of the markup: no opacity 0, no offset, no observer, in every
\* state.
C32_NoObserverLeavesVisible ==
  /\ [](~page.hasIO =>
          /\ ~reveal.observed
          /\ \A e \in Animatables(page) :
               reveal.opacity[e] = "" /\ reveal.transform[e] = "")
  /\ [][(~page.hasIO /\ event'.op = "init" /\ event'.arg = "scroll") =>
          /\ phase'["scroll"] = "inert"
          /\ pagePc' = After("scroll")
          /\ console' = console /\ unhandled' = unhandled]_vars

\* Without IntersectionObserver the page finished init() and a view was
\* selected since; the animatable element is as the markup has it.
C32_Witness ==
  /\ ~page.hasIO /\ page.animatable = 1
  /\ pagePc = "done" /\ phase["scroll"] = "inert"
  /\ dash.currentView = "quarterly"
  /\ reveal.opacity[1] = "" /\ ~reveal.observed

\* ------------------------------------------------------------------------
\* Selections in quick succession
\* ------------------------------------------------------------------------

\* The section shows key k once the pending value swaps have fired in the
\* order they were set: the values and captions of the metrics k records,
\* one active button, that of k, and k as current view.
ConsistentWith(pg, d, k) ==
  LET data == d.dataSet[k]
      final == Swapped(d.valueText, d.swapQ)
  IN /\ d.currentView = k
     /\ \A n \in pg.valueNodes : n \in DOMAIN data => final[n] = data[n].value
     /\ \A n \in pg.captionNodes : n \in DOMAIN data => d.captionText[n] = data[n].change
     /\ \A i \in 1..Len(pg.dashButtons) :
          /\ d.btnActive[i] <=> pg.dashButtons[i] = k
          /\ d.btnPressed[i] = IF pg.dashButtons[i] = k THEN "true" ELSE "false"
     /\ Cardinality({i \in 1..Len(pg.dashButtons) : d.btnActive[i]}) = 1

C34_FocusTimerOnlyWhileOpen ==
  [][(event'.op = "navFocusTimer" /\ ~nav.open) => nav'.focus = nav.focus]_vars

\* C35: a message in the live region is cleared only by the clear timer its
\* own announcement set: a clear timer that fires while a later
\* announcement's timer is still pending (the later announcement came within
\* the 1000 ms) leaves the text in place.
C35_ClearedByOwnTimer ==
  [][(event'.op = "clearFires" /\ live.clears > 1) => live'.text = live.text]_vars

\* ------------------------------------------------------------------------
\* The construction of a dashboard section
\* ------------------------------------------------------------------------

\* C36: a section with at least one view button that was constructed with a
\* dataset has completed its construction without throwing: its listeners
\* are registered, and until a button is clicked its current view is the key
\* of the button the markup marks active, or of the first button.
C36_ConstructionCompletes ==
  (Len(page.dashButtons) > 0 /\ dash.dataSet # NoDataSet)
    => /\ phase["dashboard"] = "ready"
       /\ dash.listening
       /\ dash.currentView \in {page.dashButtons[i] : i \in 1..Len(page.dashButtons)}

\* ------------------------------------------------------------------------
\* The retry simulation
\* ------------------------------------------------------------------------

\* C37: the retry status leaves the final message for an earlier one only
\* by a click, or by a tick after a click that came once the final message
\* had appeared; when no interval is live after a click, the status is the
\* final message; every interval ticks three times, cancelling itself on the
\* third tick.
C37_RetryStatusMonotone ==
  /\ [][(fw["showcase"].retryStatus = RetryFinal /\ fw'["showcase"].retryStatus # RetryFinal)
          => (event'.op = "retryClick" \/ fw["showcase"].retryLateClick)]_vars
  /\ []((fw["showcase"].retryQ = <<>> /\ fw["showcase"].retryStatus # MarkupText)
          => fw["showcase"].retryStatus = RetryFinal)
  /\ [](\A i \in 1..Len(fw["showcase"].retryQ) :
          fw["showcase"].retryQ[i].index \in 0..(Len(RetrySteps) - 1))

\* ------------------------------------------------------------------------
\* The pipeline's active step
\* ------------------------------------------------------------------------

\* C38: in every state, before, during and after a pipeline run and across
\* re-triggers, at most one pipeline step carries 'is-active'.
C38_AtMostOneActiveStep ==
  Cardinality({j \in 1..Len(page.fw["lab"].pipelineSteps) : fw["lab"].stepActive[j]}) <= 1

\* The pipeline was re-triggered while its second step was active; the new
\* run has made its first tick and only the first step is active.
C38_Witness ==
  LET x == fw["lab"]
  IN /\ Len(x.runs) = 2
     /\ x.runs[1].ticks = 2
     /\ x.runs[2].ticks = 1
     /\ x.stepActive[1] /\ ~x.stepActive[2] /\ ~x.stepActive[3]

\* ------------------------------------------------------------------------
\* The rotations' offsets and timers
\* ------------------------------------------------------------------------

\* A running rotation has a buffer of K > 0 lines and an offset in 0..K-1;
\* with an empty buffer no timer runs and the panel keeps the markup's text.
RotationsSound ==
  LET x == fw["showcase"]
  IN /\ x.logTimer =>
          Len(x.logMessages) > 0 /\ x.logOffset \in 0..(Len(x.logMessages) - 1)
     /\ x.auditTimer =>
          Len(x.auditEntries) > 0 /\ x.auditStart \in 0..(Len(x.auditEntries) - 1)
     /\ Len(x.logMessages) = 0 => ~x.logTimer /\ x.logText = <<MarkupText>>
     /\ Len(x.auditEntries) = 0 => ~x.auditTimer /\ x.auditText = <<MarkupText>>

\* C39: for the log stream and the audit log, a running rotation has a
\* buffer of K > 0 lines and its offset is in 0..K-1; a rotation timer once
\* started stays started; with an empty buffer (the fixture records no list,
\* or the load failed) no timer is started and the panel keeps the text of
\* the markup.
C39_RotationOffsets ==
  /\ []RotationsSound
  /\ [][/\ fw["showcase"].logTimer => fw'["showcase"].logTimer
        /\ fw["showcase"].auditTimer => fw'["showcase"].auditTimer]_vars

\* The log stream of three lines has ticked three times: its offset has
\* wrapped to 0; the audit log of two lines is at offset 1.
C39_Witness ==
  LET x == fw["showcase"]
  IN /\ x.logTimer /\ Len(x.logMessages) = 3 /\ x.logTicks = 3 /\ x.logOffset = 0
     /\ x.auditTimer /\ Len(x.auditEntries) = 2 /\ x.auditTicks = 3 /\ x.auditStart = 1

\* The showcase is set up on a page with both panels and a fixture without
\* the lists: no rotation runs and a filter was applied since.
C39_WitnessEmpty ==
  LET x == fw["showcase"]
  IN /\ page.fw["showcase"].hasLog /\ page.fw["showcase"].hasAudit
     /\ x.listening
     /\ x.logMessages = <<>> /\ x.auditEntries = <<>>
     /\ ~x.logTimer /\ ~x.auditTimer
     /\ event.op = "applyFilter"

\* ------------------------------------------------------------------------
\* The library's window
\* ------------------------------------------------------------------------

\* The step is a filter change of section sec that the listeners handled: a
\* debounced query change or a level change.
FilterChanged(sec) ==
  /\ event'.arg = LibName(sec)
  /\ \/ event'.op = "libraryDebounce"
     \/ event'.op = "libraryLevel" /\ event'.applied

\* C40: every debounced change of the query and every change of the level
\* resets the window to the initial 12 before filtering again: the render
\* that follows shows the first 12 matches at most; in every state the
\* window is a positive multiple of 12.
C40_WindowResets ==
  /\ [](\A sec \in 1..Len(page.lib) :
          lib[sec].visibleCount > 0 /\ lib[sec].visibleCount % 12 = 0)
  /\ [][\A sec \in 1..Len(page.lib) :
          FilterChanged(sec) =>
            /\ lib'[sec].visibleCount = 12
            /\ Len(lib'[sec].gridCards) <= 12
            /\ lib'[sec].gridCards =
                 SubSeq(lib'[sec].filteredItems, 1, Min(12, Len(lib'[sec].filteredItems)))]_vars

\* After a 'load more' had widened the window to 24, a level change was
\* handled: the window is 12 again and the 12 matches of the level show.
C40_Witness ==
  \E sec \in 1..Len(page.lib) :
    /\ event.op = "libraryLevel" /\ event.applied /\ event.arg = LibName(sec)
    /\ event.window = 24
    /\ lib[sec].visibleCount = 12
    /\ Len(lib[sec].gridCards) = 12
    /\ lib[sec].levelValue = "beginner"

====
